---------------------------- MODULE Spec2Model ----------------------------
(***************************************************************************)
(* Model of kson2toml: the conversion of a parsed Kson value tree into     *)
(* TOML text (src/kson2toml/ast.py, src/kson2toml/kson2toml.py).           *)
(*                                                                         *)
(* Text is a sequence of one-character strings, so that escaping, quoting, *)
(* splitting and stripping are computed character by character as the     *)
(* Python code does.  Python's None is the empty tuple <<>> and a present  *)
(* value x is the one-element tuple <<x>>.  A Python dict is the sequence   *)
(* of its <<key, value>> pairs in insertion order.  A lookup or a dispatch *)
(* that would raise in Python has no value here: CHOOSE and CASE are left  *)
(* without a default, so evaluating one stops the model checker.           *)
(***************************************************************************)
EXTENDS Integers, Sequences, FiniteSets, TLC

VARIABLES
    pc,             \* position in the call
    entry,          \* the entry point that was called
    kson_string,    \* the argument of kson2toml
    analysis,       \* what Kson.analyze returned: [kson_value, errors]
    arg_comments,   \* the comment_map argument of kson_to_toml_string
    arg_source,     \* its source argument, None when omitted
    arg_tokens,     \* its tokens argument, None when omitted
    ast,            \* the Output Node tree built by kson_value_to_ast
    result,         \* what the call returned or raised: [kind, text]
    renders,        \* how many times kson_to_toml_string was entered
    rendered,       \* whether any output text has been produced
    extractor       \* the locals of extract_comments_with_mapping

vars == <<pc, entry, kson_string, analysis, arg_comments, arg_source,
          arg_tokens, ast, result, renders, rendered, extractor>>

----------------------------------------------------------------------------
(* Characters and text *)

NL == "\n"
TAB == "\t"
CR == "\r"
SP == " "
DQ == "\""
SQ == "'"
BS == "\\"

None == <<>>
Some(x) == <<x>>
IsNone(o) == o = <<>>
Val(o) == o[1]

\* str.strip()/rstrip() whitespace, restricted to the characters of the model
Whitespace == {SP, TAB, NL, CR}

\* truthiness of a Python str / list / dict argument that may be None
Truthy(o) == o # None /\ Val(o) # <<>>

Min(a, b) == IF a < b THEN a ELSE b

\* x in s, for one character
HasChar(s, c) == \E i \in 1..Len(s) : s[i] = c

\* s[i:].startswith(sub), i is 1-based
StartsWithAt(s, sub, i) ==
    /\ i + Len(sub) - 1 <= Len(s)
    /\ \A j \in 1..Len(sub) : s[i + j - 1] = sub[j]

StartsWith(s, sub) == StartsWithAt(s, sub, 1)

EndsWith(s, sub) ==
    Len(sub) <= Len(s) /\ StartsWithAt(s, sub, Len(s) - Len(sub) + 1)

\* sub in s
Contains(s, sub) == \E i \in 1..(Len(s) + 1) : StartsWithAt(s, sub, i)

RECURSIVE ReplaceFrom(_, _, _, _)
ReplaceFrom(s, old, new, i) ==
    IF i > Len(s) THEN <<>>
    ELSE IF StartsWithAt(s, old, i)
         THEN new \o ReplaceFrom(s, old, new, i + Len(old))
         ELSE <<s[i]>> \o ReplaceFrom(s, old, new, i + 1)

\* s.replace(old, new), old non-empty
Replace(s, old, new) == ReplaceFrom(s, old, new, 1)

RECURSIVE LStrip(_)
LStrip(s) ==
    IF s # <<>> /\ Head(s) \in Whitespace THEN LStrip(Tail(s)) ELSE s

RECURSIVE RStrip(_)
RStrip(s) ==
    IF s # <<>> /\ s[Len(s)] \in Whitespace
    THEN RStrip(SubSeq(s, 1, Len(s) - 1))
    ELSE s

Strip(s) == LStrip(RStrip(s))

RECURSIVE Join(_, _)
\* sep.join(parts)
Join(parts, sep) ==
    IF parts = <<>> THEN <<>>
    ELSE IF Len(parts) = 1 THEN parts[1]
    ELSE parts[1] \o sep \o Join(Tail(parts), sep)

\* index of the first occurrence of character c in s, 0 when absent
FirstIndex(s, c) ==
    IF HasChar(s, c)
    THEN CHOOSE i \in 1..Len(s) : s[i] = c /\ \A j \in 1..(i - 1) : s[j] # c
    ELSE 0

RECURSIVE Split(_, _)
RECURSIVE SplitAt(_, _, _)
\* s.split(c) for one character c, whose first occurrence is at i
SplitAt(s, c, i) ==
    IF i = 0 THEN <<s>>
    ELSE <<SubSeq(s, 1, i - 1)>> \o Split(SubSeq(s, i + 1, Len(s)), c)

\* s.split(c) for one character c
Split(s, c) == SplitAt(s, c, FirstIndex(s, c))

Split1At(s, i) ==
    IF i = 0 THEN <<s>>
    ELSE <<SubSeq(s, 1, i - 1), SubSeq(s, i + 1, Len(s))>>

\* s.split(c, 1)
Split1(s, c) == Split1At(s, FirstIndex(s, c))

\* the elements of a sequence, as a set
Range(seq) == {seq[i] : i \in 1..Len(seq)}

RECURSIVE Flatten(_)
\* concatenation of a sequence of sequences
Flatten(seqs) ==
    IF seqs = <<>> THEN <<>> ELSE Head(seqs) \o Flatten(Tail(seqs))

\* text of a model literal: the characters of a short constant string
Spaces(n) == [i \in 1..n |-> SP]

\* '    ' * level
Indent(level) == Spaces(4 * level)

----------------------------------------------------------------------------
(* Python dict, as a sequence of <<key, value>> pairs in insertion order *)

Keys(d) == [i \in 1..Len(d) |-> d[i][1]]

HasKey(d, k) == \E i \in 1..Len(d) : d[i][1] = k

\* d[k], k a key of d
Get(d, k) == d[CHOOSE i \in 1..Len(d) : d[i][1] = k][2]

\* d[k] = v
Put(d, k, v) ==
    IF HasKey(d, k)
    THEN [i \in 1..Len(d) |-> IF d[i][1] = k THEN <<k, v>> ELSE d[i]]
    ELSE Append(d, <<k, v>>)

RECURSIVE Update(_, _)
\* d.update(e)
Update(d, e) ==
    IF e = <<>> THEN d
    ELSE Update(Put(d, Head(e)[1], Head(e)[2]), Tail(e))

RECURSIVE SortedSet(_)
\* the members of a finite set of integers, ascending
SortedSet(S) ==
    IF S = {} THEN <<>>
    ELSE LET m == CHOOSE x \in S : \A y \in S : x <= y
         IN  <<m>> \o SortedSet(S \ {m})

\* sorted(d.keys())
SortedKeys(d) == SortedSet(Range(Keys(d)))

----------------------------------------------------------------------------
(* Output Nodes: the classes of ast.py, one record shape for all of them *)

NoNode ==
    [cls |-> "", value |-> <<>>, bvalue |-> FALSE, num |-> <<0, 0>>,
     literal |-> None,
     allow_multiline |-> TRUE, elements |-> <<>>, start_line |-> None,
     end_line |-> None, properties |-> <<>>, content |-> <<>>,
     tag |-> None, metadata |-> None, has_escapes |-> FALSE]

\* TomlString.__init__: "$ " and "$\t" become a tab
\* a faulty variant of TomlString: every dollar sign is taken for an escape
TomlString_no_dollar(value, allow_multiline) ==
    [NoNode EXCEPT
        !.cls = "TomlString",
        !.value = Replace(value, <<"$">>, <<>>),
        !.allow_multiline = allow_multiline]

\* a faulty variant of TomlString: only "$ " becomes a tab
TomlString_space_only(value, allow_multiline) ==
    [NoNode EXCEPT
        !.cls = "TomlString",
        !.value = Replace(value, <<"$", SP>>, <<TAB>>),
        !.allow_multiline = allow_multiline]

TomlString(value, allow_multiline) ==
    [NoNode EXCEPT
        !.cls = "TomlString",
        !.value = Replace(Replace(value, <<"$", SP>>, <<TAB>>),
                          <<"$", TAB>>, <<TAB>>),
        !.allow_multiline = allow_multiline]

\* value is <<n, 0>>: the Python int n
TomlInteger(value, literal) ==
    [NoNode EXCEPT !.cls = "TomlInteger", !.num = value, !.literal = literal]

\* value is <<n, d>>: the Python float n / 10^d
TomlFloat(value, literal) ==
    [NoNode EXCEPT !.cls = "TomlFloat", !.num = value, !.literal = literal]

TomlBoolean(value) ==
    [NoNode EXCEPT !.cls = "TomlBoolean", !.bvalue = value]

TomlNull == [NoNode EXCEPT !.cls = "TomlNull"]

TomlArray(elements, start_line, end_line) ==
    [NoNode EXCEPT !.cls = "TomlArray", !.elements = elements,
                   !.start_line = start_line, !.end_line = end_line]

\* properties: the dict, as a sequence of <<key, node>> in insertion order
TomlTable(properties) ==
    [NoNode EXCEPT !.cls = "TomlTable", !.properties = properties]

TomlEmbed(content, tag, metadata, has_escapes) ==
    [NoNode EXCEPT !.cls = "TomlEmbed", !.content = content, !.tag = tag,
                   !.metadata = metadata, !.has_escapes = has_escapes]

isinstance(node, cls) == node.cls = cls

----------------------------------------------------------------------------
(* str() of the numbers of the model *)

Digit(k) ==
    CASE k = 0 -> "0" [] k = 1 -> "1" [] k = 2 -> "2" [] k = 3 -> "3"
      [] k = 4 -> "4" [] k = 5 -> "5" [] k = 6 -> "6" [] k = 7 -> "7"
      [] k = 8 -> "8" [] k = 9 -> "9"

RECURSIVE NatStr(_)
NatStr(n) ==
    IF n < 10 THEN <<Digit(n)>> ELSE NatStr(n \div 10) \o <<Digit(n % 10)>>

\* str(n) of a Python int
IntStr(n) == IF n < 0 THEN <<"-">> \o NatStr(-n) ELSE NatStr(n)

RECURSIVE PadZeros(_, _)
PadZeros(digits, width) ==
    IF Len(digits) >= width THEN digits ELSE PadZeros(<<"0">> \o digits, width)

\* str(x) of the Python float x = n / 10^d, n not divisible by 10 when d > 0,
\* for 1e-4 <= |x| < 1e16, where repr uses positional notation
FloatStr(n, d) ==
    LET abs == IF n < 0 THEN -n ELSE n
        ds == PadZeros(NatStr(abs), d + 1)
        whole == SubSeq(ds, 1, Len(ds) - d)
        frac == IF d = 0 THEN <<"0">> ELSE SubSeq(ds, Len(ds) - d + 1, Len(ds))
    IN  (IF n < 0 THEN <<"-">> ELSE <<>>) \o whole \o <<".">> \o frac

----------------------------------------------------------------------------
(* Rendering of the scalar nodes *)

\* TomlString.to_toml, lines 70-72: real newlines become backslash n
EscapeNewlines(escaped) ==
    IF HasChar(escaped, NL) THEN Replace(escaped, <<NL>>, <<BS, "n">>)
    ELSE escaped

\* a faulty variant of TomlString.to_toml: the single-quote rule is tried
\* before the multi-line rule
TomlString_to_toml_single_first(node) ==
    LET value == node.value
        has_real_newlines == HasChar(value, NL)
        has_real_tabs == HasChar(value, TAB)
        has_single_quote == HasChar(value, SQ)
        has_backslash == HasChar(value, BS)
        has_double_quote == HasChar(value, DQ)
    IN  IF has_backslash /\ has_double_quote /\ ~has_single_quote
        THEN <<SQ>> \o Replace(value, <<BS>>, <<BS, BS>>) \o <<SQ>>
        ELSE IF /\ node.allow_multiline
                /\ (has_real_newlines \/ has_real_tabs)
                /\ Len(Strip(value)) > 0
        THEN <<DQ, DQ, DQ>> \o value \o <<DQ, DQ, DQ>>
        ELSE <<DQ>>
             \o EscapeNewlines(Replace(Replace(value, <<BS>>, <<BS, BS>>),
                                       <<DQ>>, <<BS, DQ>>))
             \o <<DQ>>

\* TomlString.to_toml
TomlString_to_toml(node) ==
    LET value == node.value
        has_real_newlines == HasChar(value, NL)
        has_real_tabs == HasChar(value, TAB)
        has_single_quote == HasChar(value, SQ)
        has_backslash == HasChar(value, BS)
        has_double_quote == HasChar(value, DQ)
    IN  IF /\ node.allow_multiline
           /\ (has_real_newlines \/ has_real_tabs)
           /\ Len(Strip(value)) > 0
        THEN <<DQ, DQ, DQ>> \o value \o <<DQ, DQ, DQ>>
        ELSE IF has_backslash /\ has_double_quote /\ ~has_single_quote
        THEN <<SQ>> \o Replace(value, <<BS>>, <<BS, BS>>) \o <<SQ>>
        ELSE <<DQ>>
             \o EscapeNewlines(Replace(Replace(value, <<BS>>, <<BS, BS>>),
                                       <<DQ>>, <<BS, DQ>>))
             \o <<DQ>>

\* TomlInteger.to_toml
TomlInteger_to_toml(node) ==
    IF Truthy(node.literal) THEN Val(node.literal) ELSE IntStr(node.num[1])

\* TomlFloat.to_toml
TomlFloat_to_toml(node) ==
    IF Truthy(node.literal) THEN Val(node.literal)
    ELSE FloatStr(node.num[1], node.num[2])

\* a faulty variant of TomlBoolean.to_toml: str(value) of Python
TomlBoolean_to_toml_str(node) ==
    IF node.bvalue THEN <<"T", "r", "u", "e">>
    ELSE <<"F", "a", "l", "s", "e">>

\* TomlBoolean.to_toml
TomlBoolean_to_toml(node) ==
    IF node.bvalue THEN <<"t", "r", "u", "e">>
    ELSE <<"f", "a", "l", "s", "e">>

\* TomlNull.to_toml
TomlNull_to_toml(node) == <<DQ, "n", "u", "l", "l", DQ>>

----------------------------------------------------------------------------
(* textwrap.dedent and the rendering of an Embed *)

IsBlankChars(line) == \A i \in 1..Len(line) : line[i] \in {SP, TAB}

\* the leading run of spaces and tabs of a line
RECURSIVE LeadingWs(_)
LeadingWs(line) ==
    IF line # <<>> /\ Head(line) \in {SP, TAB}
    THEN <<Head(line)>> \o LeadingWs(Tail(line))
    ELSE <<>>

RECURSIVE CommonPrefix(_, _)
CommonPrefix(a, b) ==
    IF a # <<>> /\ b # <<>> /\ Head(a) = Head(b)
    THEN <<Head(a)>> \o CommonPrefix(Tail(a), Tail(b))
    ELSE <<>>

\* one step of the loop over indents of textwrap.dedent
NextMargin(margin, indent) ==
    IF IsNone(margin) THEN Some(indent)
    ELSE IF StartsWith(indent, Val(margin)) THEN margin
    ELSE IF StartsWith(Val(margin), indent) THEN Some(indent)
    ELSE Some(CommonPrefix(Val(margin), indent))

\* the loop over indents of textwrap.dedent; margin is None or <<text>>
RECURSIVE DedentMargin(_, _)
DedentMargin(indents, margin) ==
    IF indents = <<>> THEN margin
    ELSE DedentMargin(Tail(indents), NextMargin(margin, Head(indents)))

\* textwrap.dedent: lines of blanks become empty
BlankedLines(raw) ==
    [i \in 1..Len(raw) |-> IF IsBlankChars(raw[i]) THEN <<>> ELSE raw[i]]

\* textwrap.dedent: the indentation of every line that is not empty
Indents(lines) ==
    Flatten([i \in 1..Len(lines) |->
                IF lines[i] = <<>> THEN <<>> ELSE <<LeadingWs(lines[i])>>])

\* textwrap.dedent: the margin is removed from the lines that start with it
CutMargin(lines, margin) ==
    [i \in 1..Len(lines) |->
        IF Truthy(margin) /\ StartsWith(lines[i], Val(margin))
        THEN SubSeq(lines[i], Len(Val(margin)) + 1, Len(lines[i]))
        ELSE lines[i]]

DedentLines(lines) ==
    Join(CutMargin(lines, DedentMargin(Indents(lines), None)), <<NL>>)

\* textwrap.dedent(text)
dedent(text) == DedentLines(BlankedLines(Split(text, NL)))

\* TomlEmbed.to_toml: a newline is added to content that does not end in one
EnsureNewline(content) ==
    IF ~EndsWith(content, <<NL>>) THEN content \o <<NL>> ELSE content

\* TomlEmbed.to_toml keeping the indentation of every content
TomlEmbed_to_toml_indented(node) ==
    <<DQ, DQ, DQ, NL>>
    \o Replace(EnsureNewline(node.content), <<BS>>, <<BS, BS>>)
    \o <<DQ, DQ, DQ>>

\* TomlEmbed.to_toml
TomlEmbed_to_toml(node) ==
    <<DQ, DQ, DQ, NL>>
    \o Replace(EnsureNewline(IF ~node.has_escapes THEN dedent(node.content)
                             ELSE node.content),
               <<BS>>, <<BS, BS>>)
    \o <<DQ, DQ, DQ>>

----------------------------------------------------------------------------
(* Rendering of arrays and tables *)

RECURSIVE to_toml(_, _, _, _)
RECURSIVE to_toml_default(_, _)
RECURSIVE TomlArray_to_toml(_, _, _, _)
RECURSIVE ArrayMultilineWithComments(_, _, _, _)
RECURSIVE TomlTable_to_inline(_)
RECURSIVE TomlTable_to_toml(_, _, _, _, _)
RECURSIVE SimpleValuesLoop(_, _, _, _, _, _)
RECURSIVE ArrayOfTablesLoop(_, _, _, _, _)
RECURSIVE NestedArraysLoop(_, _, _, _)
RECURSIVE NestedTablesLoop(_, _, _, _)

HasTableElement(node) ==
    \E i \in 1..Len(node.elements) : isinstance(node.elements[i], "TomlTable")

HasArrayElement(node) ==
    \E i \in 1..Len(node.elements) : isinstance(node.elements[i], "TomlArray")

\* the comments of the parent that fall within a nested array's lines
\* (TomlArray.to_toml, the loop that fills elem_comments)
ElemComments(elem, comments) ==
    IF /\ isinstance(elem, "TomlArray")
       /\ elem.start_line # None
       /\ elem.end_line # None
    THEN SelectSeq(comments, LAMBDA p :
             /\ p[1] >= 0
             /\ Val(elem.start_line) <= p[1]
             /\ p[1] <= Val(elem.end_line))
    ELSE <<>>

\* consumed_comment_lines once elements 1..i have been visited
ConsumedUpTo(elements, comments, i) ==
    UNION {Range(Keys(ElemComments(elements[j], comments))) : j \in 1..i}

\* TomlArray.to_toml, line 261: only the leading group -1 is present
CompactMode(sorted_comment_lines) ==
    Len(sorted_comment_lines) = 1 /\ sorted_comment_lines[1] = -1

\* TomlArray.to_toml, lines 283-292 and 303-305: the lines of one group of
\* comments, unless a nested array has consumed the group
CommentGroup(group, line_num, consumed, comment_indent) ==
    IF line_num \notin consumed
    THEN [k \in 1..Len(group) |-> comment_indent \o group[k]]
    ELSE <<>>

\* TomlArray.to_toml, lines 272-298: what the i-th element appends to lines;
\* elem_str is the element's rendering
ArrayElementLines(elements, i, elem_str, comments, sorted_comment_lines, compact_mode, indent, next_indent) ==
    (IF i <= Len(sorted_comment_lines)
     THEN CommentGroup(Get(comments, sorted_comment_lines[i]),
                       sorted_comment_lines[i],
                       ConsumedUpTo(elements, comments, i),
                       IF sorted_comment_lines[i] = -1 /\ compact_mode
                       THEN indent ELSE next_indent)
     ELSE <<>>)
    \o <<(IF compact_mode THEN indent ELSE next_indent) \o elem_str
         \o (IF i < Len(elements) THEN <<",">> ELSE <<>>)>>

\* TomlArray.to_toml, lines 300-305: the groups beyond the last element
ArrayExtraLines(elements, comments, sorted_comment_lines, next_indent) ==
    IF Len(sorted_comment_lines) > Len(elements)
    THEN Flatten([j \in 1..(Len(sorted_comment_lines) - Len(elements)) |->
             CommentGroup(
                 Get(comments, sorted_comment_lines[Len(elements) + j]),
                 sorted_comment_lines[Len(elements) + j],
                 ConsumedUpTo(elements, comments, Len(elements)),
                 next_indent)])
    ELSE <<>>

\* TomlArray.to_toml, lines 253-305: the lines between the brackets
ArrayCommentedLines(node, indent_level, comments, source, sorted_comment_lines, compact_mode) ==
    Flatten([i \in 1..Len(node.elements) |->
        ArrayElementLines(node.elements, i,
            to_toml(node.elements[i],
                    IF ~compact_mode THEN indent_level + 1 ELSE indent_level,
                    ElemComments(node.elements[i], comments), source),
            comments, sorted_comment_lines, compact_mode,
            Indent(indent_level), Indent(indent_level + 1))])
    \o ArrayExtraLines(node.elements, comments, sorted_comment_lines,
                       Indent(indent_level + 1))

\* TomlArray.to_toml, the multi-line branch with source and comments
ArrayMultilineWithComments(node, indent_level, comments, source) ==
    Join(<<<<"[">>>>
         \o ArrayCommentedLines(node, indent_level, comments, source,
                SortedKeys(comments), CompactMode(SortedKeys(comments)))
         \o <<Indent(indent_level) \o <<"]">>>>,
         <<NL>>)

\* a faulty variant of TomlArray.to_toml: four elements still fit one line
TomlArray_to_toml_five(node, indent_level, comments, source) ==
    LET elements == node.elements
        n == Len(elements)
        has_tables == HasTableElement(node)
        has_arrays == HasArrayElement(node)
        has_comments == comments # <<>>
        next_indent == Indent(indent_level + 1)
    IN  IF elements = <<>> THEN <<"[", "]">>
        ELSE IF has_tables
        THEN <<"[">>
             \o Join([i \in 1..n |->
                        IF isinstance(elements[i], "TomlTable")
                        THEN TomlTable_to_inline(elements[i])
                        ELSE to_toml(elements[i], indent_level, <<>>, source)],
                     <<",", SP>>)
             \o <<"]">>
        ELSE IF has_arrays \/ n > 4 \/ has_comments
        THEN IF Truthy(source) /\ comments # <<>>
             THEN ArrayMultilineWithComments(node, indent_level, comments,
                                             source)
             ELSE Join(<<<<"[">>>>
                       \o [i \in 1..n |->
                             next_indent
                             \o to_toml(elements[i], indent_level + 1, <<>>,
                                        source)
                             \o (IF i < n THEN <<",">> ELSE <<>>)]
                       \o <<Indent(indent_level) \o <<"]">>>>,
                       <<NL>>)
        ELSE <<"[">>
             \o Join([i \in 1..n |->
                        to_toml(elements[i], indent_level, <<>>, source)],
                     <<",", SP>>)
             \o <<"]">>

\* TomlArray.to_toml
TomlArray_to_toml(node, indent_level, comments, source) ==
    LET elements == node.elements
        n == Len(elements)
        has_tables == HasTableElement(node)
        has_arrays == HasArrayElement(node)
        has_comments == comments # <<>>
        next_indent == Indent(indent_level + 1)
    IN  IF elements = <<>> THEN <<"[", "]">>
        ELSE IF has_tables
        THEN <<"[">>
             \o Join([i \in 1..n |->
                        IF isinstance(elements[i], "TomlTable")
                        THEN TomlTable_to_inline(elements[i])
                        ELSE to_toml(elements[i], indent_level, <<>>, source)],
                     <<",", SP>>)
             \o <<"]">>
        ELSE IF has_arrays \/ n > 3 \/ has_comments
        THEN IF Truthy(source) /\ comments # <<>>
             THEN ArrayMultilineWithComments(node, indent_level, comments,
                                             source)
             ELSE Join(<<<<"[">>>>
                       \o [i \in 1..n |->
                             next_indent
                             \o to_toml(elements[i], indent_level + 1, <<>>,
                                        source)
                             \o (IF i < n THEN <<",">> ELSE <<>>)]
                       \o <<Indent(indent_level) \o <<"]">>>>,
                       <<NL>>)
        ELSE <<"[">>
             \o Join([i \in 1..n |->
                        to_toml(elements[i], indent_level, <<>>, source)],
                     <<",", SP>>)
             \o <<"]">>

\* TomlNode.to_toml(indent_level, comments, source) of the classes that are
\* not tables; no table reaches a call with these positional arguments
to_toml(node, indent_level, comments, source) ==
    CASE isinstance(node, "TomlString") -> TomlString_to_toml(node)
      [] isinstance(node, "TomlInteger") -> TomlInteger_to_toml(node)
      [] isinstance(node, "TomlFloat") -> TomlFloat_to_toml(node)
      [] isinstance(node, "TomlBoolean") -> TomlBoolean_to_toml(node)
      [] isinstance(node, "TomlNull") -> TomlNull_to_toml(node)
      [] isinstance(node, "TomlEmbed") -> TomlEmbed_to_toml(node)
      [] isinstance(node, "TomlArray") ->
            TomlArray_to_toml(node, indent_level, comments, source)

\* node.to_toml(indent_level) with every other argument defaulted, of any class
to_toml_default(node, indent_level) ==
    IF isinstance(node, "TomlTable")
    THEN TomlTable_to_toml(node, indent_level, <<>>, <<>>, None)
    ELSE to_toml(node, indent_level, <<>>, None)

IsReservedKey(key) ==
    \/ key = <<"f", "a", "l", "s", "e">>
    \/ key = <<"t", "r", "u", "e">>
    \/ key = <<"n", "u", "l", "l">>

\* to_inline quoting only the keys that hold a space
InlineKeyStr_space_only(key) ==
    IF HasChar(key, SP) THEN <<DQ>> \o key \o <<DQ>> ELSE key

\* the key as written by TomlTable.to_inline
InlineKeyStr(key) ==
    IF HasChar(key, SP) \/ HasChar(key, "-") \/ IsReservedKey(key)
    THEN <<DQ>> \o key \o <<DQ>>
    ELSE key

\* the key as written by TomlTable.to_toml in a key = value line
BlockKeyStr(key) ==
    IF HasChar(key, SP) \/ HasChar(key, "-") \/ IsReservedKey(key)
    THEN <<DQ>> \o key \o <<DQ>>
    ELSE key

\* TomlTable.to_inline
TomlTable_to_inline(node) ==
    LET props == node.properties
        items == [i \in 1..Len(props) |->
                    InlineKeyStr(props[i][1]) \o <<SP, "=", SP>>
                    \o to_toml_default(props[i][2], 0)]
    IN  <<"{">> \o Join(items, <<",", SP>>) \o <<"}">>

TEXT_embedContent ==
    <<"e", "m", "b", "e", "d", "C", "o", "n", "t", "e", "n", "t">>

\* f'{table_path}.{key}' if table_path else key
FullPath(table_path, key) ==
    IF table_path # <<>> THEN table_path \o <<".">> \o key ELSE key

IsArrayOfTables(value) ==
    isinstance(value, "TomlArray") /\ HasTableElement(value)

\* TomlTable.to_toml: the three lists the properties are sorted into
nested_tables(node) ==
    SelectSeq(node.properties, LAMBDA p : isinstance(p[2], "TomlTable"))

nested_arrays(node) ==
    SelectSeq(node.properties, LAMBDA p :
        ~isinstance(p[2], "TomlTable") /\ IsArrayOfTables(p[2]))

simple_values(node) ==
    SelectSeq(node.properties, LAMBDA p :
        ~isinstance(p[2], "TomlTable") /\ ~IsArrayOfTables(p[2]))

\* the key a source line declares, as TomlTable.to_toml reads it
KeyPart(stripped) ==
    LET key_part == Strip(Split1(stripped, ":")[1])
    IN  IF StartsWith(key_part, <<DQ>>) /\ EndsWith(key_part, <<DQ>>)
        THEN SubSeq(key_part, 2, Len(key_part) - 1)
        ELSE key_part

RECURSIVE KeyLineLoop_first(_, _, _, _)
\* the loop that fills key_line, were a key kept at its first line
KeyLineLoop_first(source_lines, i, keys, key_line) ==
    IF i > Len(source_lines) THEN key_line
    ELSE LET stripped == Strip(source_lines[i])
             hit == /\ HasChar(stripped, ":")
                    /\ ~StartsWith(stripped, <<"#">>)
                    /\ KeyPart(stripped) \in Range(keys)
                    /\ ~HasKey(key_line, KeyPart(stripped))
         IN  KeyLineLoop_first(source_lines, i + 1, keys,
                 IF hit THEN Put(key_line, KeyPart(stripped), i - 1)
                 ELSE key_line)

RECURSIVE KeyLineLoop(_, _, _, _)
\* TomlTable.to_toml: the loop that fills key_line; line numbers from 0
KeyLineLoop(source_lines, i, keys, key_line) ==
    IF i > Len(source_lines) THEN key_line
    ELSE LET stripped == Strip(source_lines[i])
             hit == /\ HasChar(stripped, ":")
                    /\ ~StartsWith(stripped, <<"#">>)
                    /\ KeyPart(stripped) \in Range(keys)
         IN  KeyLineLoop(source_lines, i + 1, keys,
                 IF hit THEN Put(key_line, KeyPart(stripped), i - 1)
                 ELSE key_line)

\* TomlTable.to_toml: property_comments, a dict from every simple key
PropertyComments(simple, comments, source) ==
    LET keys == Keys(simple)
        key_line == IF Truthy(source) /\ comments # <<>> /\ simple # <<>>
                    THEN KeyLineLoop(Split(Val(source), NL), 1, keys, <<>>)
                    ELSE <<>>
        Of(k) == Flatten([j \in 1..Len(comments) |->
                    IF HasKey(key_line, k) /\ Get(key_line, k) = comments[j][1]
                    THEN comments[j][2] ELSE <<>>])
    IN  [i \in 1..Len(simple) |-> <<keys[i], Of(keys[i])>>]

\* TomlTable.to_toml, lines 409-430: what one simple property appends to
\* lines; value_str is value.to_toml(indent_level, {}, source)
SimpleValueLines(key, value, value_str, lines, full_path) ==
    IF isinstance(value, "TomlEmbed") /\ key # TEXT_embedContent
    THEN (IF lines # <<>> THEN Append(lines, <<>>) ELSE lines)
         \o <<<<"[">> \o full_path \o <<"]">>,
              TEXT_embedContent \o <<SP, "=", SP>> \o value_str>>
    ELSE Append(lines, BlockKeyStr(key) \o <<SP, "=", SP>> \o value_str)

\* TomlTable.to_toml, lines 419-423: a string under the key embedContent is
\* rendered with allow_multiline switched off
SimpleValueNode(key, value) ==
    IF key = TEXT_embedContent /\ isinstance(value, "TomlString")
    THEN [value EXCEPT !.allow_multiline = FALSE]
    ELSE value

\* TomlTable.to_toml: the loop over simple_values, appending to lines
SimpleValuesLoop(simple, lines, indent_level, table_path, property_comments, source) ==
    IF simple = <<>> THEN lines
    ELSE SimpleValuesLoop(Tail(simple),
             SimpleValueLines(Head(simple)[1], Head(simple)[2],
                 to_toml(SimpleValueNode(Head(simple)[1], Head(simple)[2]),
                         indent_level, <<>>, source),
                 lines \o Get(property_comments, Head(simple)[1]),
                 FullPath(table_path, Head(simple)[1])),
             indent_level, table_path, property_comments, source)

\* the lines of a rendered table element that an array-of-tables block keeps
KeptTableLines(text) ==
    SelectSeq(Split(text, NL), LAMBDA line :
        Strip(line) # <<>> /\ ~StartsWith(Strip(line), <<"[">>))

\* TomlTable.to_toml, lines 436-441: what one table element of an array of
\* tables appends to lines; text is elem.to_toml(0, full_path, {}, source)
TableElementLines(lines, full_path, text) ==
    (IF lines # <<>> THEN Append(lines, <<>>) ELSE lines)
    \o <<<<"[", "[">> \o full_path \o <<"]", "]">>>>
    \o KeptTableLines(text)

\* TomlTable.to_toml: the loop over the elements of one array of tables
ArrayOfTablesLoop(elements, key, lines, table_path, source) ==
    IF elements = <<>> THEN lines
    ELSE ArrayOfTablesLoop(Tail(elements), key,
             IF isinstance(Head(elements), "TomlTable")
             THEN TableElementLines(lines, FullPath(table_path, key),
                      TomlTable_to_toml(Head(elements), 0,
                                        FullPath(table_path, key), <<>>,
                                        source))
             ELSE lines,
             table_path, source)

\* TomlTable.to_toml: the loop over nested_arrays
NestedArraysLoop(arrays, lines, table_path, source) ==
    IF arrays = <<>> THEN lines
    ELSE NestedArraysLoop(Tail(arrays),
             ArrayOfTablesLoop(Head(arrays)[2].elements, Head(arrays)[1],
                               lines, table_path, source),
             table_path, source)

\* TomlTable.to_toml, lines 445-449: what one nested table appends to lines;
\* text is value.to_toml(0, full_path, {}, source)
NestedTableLines(lines, full_path, text) ==
    (IF lines # <<>> THEN Append(lines, <<>>) ELSE lines)
    \o <<<<"[">> \o full_path \o <<"]">>, text>>

\* TomlTable.to_toml: the loop over nested_tables
NestedTablesLoop(tables, lines, table_path, source) ==
    IF tables = <<>> THEN lines
    ELSE NestedTablesLoop(Tail(tables),
             NestedTableLines(lines, FullPath(table_path, Head(tables)[1]),
                 TomlTable_to_toml(Head(tables)[2], 0,
                                   FullPath(table_path, Head(tables)[1]),
                                   <<>>, source)),
             table_path, source)

\* TomlTable.to_toml: the list `lines` before it is joined
TomlTable_lines(node, indent_level, table_path, comments, source) ==
    NestedTablesLoop(nested_tables(node),
        NestedArraysLoop(nested_arrays(node),
            SimpleValuesLoop(simple_values(node), <<>>, indent_level,
                table_path,
                PropertyComments(simple_values(node), comments, source),
                source),
            table_path, source),
        table_path, source)

\* TomlTable.to_toml
TomlTable_to_toml(node, indent_level, table_path, comments, source) ==
    Join(TomlTable_lines(node, indent_level, table_path, comments, source),
         <<NL>>)

----------------------------------------------------------------------------
(* Array classification *)

\* TomlArray.check_heterogeneous
check_heterogeneous(node) ==
    LET elements == node.elements
        has_array_with_tables ==
            \E i \in 1..Len(elements) :
                /\ isinstance(elements[i], "TomlArray")
                /\ HasTableElement(elements[i])
        has_other_types ==
            \E i \in 1..Len(elements) :
                ~(/\ isinstance(elements[i], "TomlArray")
                  /\ HasTableElement(elements[i]))
    IN  IF elements = <<>> THEN FALSE
        ELSE has_array_with_tables /\ has_other_types

BoolToInt(b) == IF b THEN 1 ELSE 0

\* a faulty variant of needs_array_of_tables_format: two primitive kinds are
\* not yet taken for a mix
needs_array_of_tables_format_three(node) ==
    LET elements == node.elements
        Has(classes) == \E i \in 1..Len(elements) : elements[i].cls \in classes
        has_number == Has({"TomlInteger", "TomlFloat"})
        has_boolean == Has({"TomlBoolean"})
        has_null == Has({"TomlNull"})
        primitive_types_count ==
            BoolToInt(Has({"TomlString"})) + BoolToInt(has_number)
            + BoolToInt(has_boolean) + BoolToInt(has_null)
    IN  IF elements = <<>> THEN FALSE
        ELSE IF Has({"TomlArray"}) /\ (has_number \/ has_boolean \/ has_null
                                       \/ Has({"TomlTable"}))
        THEN TRUE
        ELSE primitive_types_count >= 3

\* a faulty variant of needs_array_of_tables_format: a string beside an
\* array counts like any other primitive
needs_array_of_tables_format_string(node) ==
    LET elements == node.elements
        Has(classes) == \E i \in 1..Len(elements) : elements[i].cls \in classes
        has_string == Has({"TomlString"})
        has_number == Has({"TomlInteger", "TomlFloat"})
        has_boolean == Has({"TomlBoolean"})
        has_null == Has({"TomlNull"})
        primitive_types_count ==
            BoolToInt(has_string) + BoolToInt(has_number)
            + BoolToInt(has_boolean) + BoolToInt(has_null)
    IN  IF elements = <<>> THEN FALSE
        ELSE IF Has({"TomlArray"}) /\ (has_string \/ has_number \/ has_boolean
                                       \/ has_null \/ Has({"TomlTable"}))
        THEN TRUE
        ELSE primitive_types_count >= 2

\* TomlArray.needs_array_of_tables_format
needs_array_of_tables_format(node) ==
    LET elements == node.elements
        Has(classes) == \E i \in 1..Len(elements) : elements[i].cls \in classes
        has_string == Has({"TomlString"})
        has_number == Has({"TomlInteger", "TomlFloat"})
        has_boolean == Has({"TomlBoolean"})
        has_null == Has({"TomlNull"})
        has_array == Has({"TomlArray"})
        has_table == Has({"TomlTable"})
        primitive_types_count ==
            BoolToInt(has_string) + BoolToInt(has_number)
            + BoolToInt(has_boolean) + BoolToInt(has_null)
    IN  IF elements = <<>> THEN FALSE
        ELSE IF has_array /\ (has_number \/ has_boolean \/ has_null
                              \/ has_table)
        THEN TRUE
        ELSE IF primitive_types_count >= 2 THEN TRUE
        ELSE FALSE

----------------------------------------------------------------------------
(* The value tree of the external parser (KsonValue) and the Node Builder *)

NoValue ==
    [type |-> "", value |-> <<>>, bvalue |-> FALSE, num |-> <<0, 0>>,
     elements |-> <<>>, properties |-> <<>>, content |-> <<>>,
     tag |-> None, metadata |-> None, start |-> None, end |-> None]

\* a faulty variant of Raise: an unknown kind is taken for null
Raise_null(value_type) == TomlNull

\* what kson_value_to_ast yields when it raises ValueError for value_type
Raise(value_type) ==
    [NoNode EXCEPT !.cls = "ValueError", !.value = <<value_type>>]

IsRaised(node) == node.cls = "ValueError"

\* the first exception raised while a list of nodes was built
FirstRaised(nodes) ==
    nodes[CHOOSE i \in 1..Len(nodes) :
              IsRaised(nodes[i]) /\ \A j \in 1..(i - 1) : ~IsRaised(nodes[j])]

RecognisedTypes ==
    {"STRING", "INTEGER", "DECIMAL", "BOOLEAN", "NULL", "ARRAY", "OBJECT",
     "EMBED"}

\* line[a:b] of Python, 0 <= a, 0 <= b
Slice(line, a, b) == SubSeq(line, a + 1, Min(b, Len(line)))

\* extract_literal_text; a caught exception gives None
extract_literal_text(kson_value, tokens, source) ==
    IF tokens = None \/ source = None THEN None
    ELSE IF kson_value.start = None \/ kson_value.end = None THEN None
    ELSE LET start_line == Val(kson_value.start)[1]
             start_col == Val(kson_value.start)[2]
             end_line == Val(kson_value.end)[1]
             end_col == Val(kson_value.end)[2]
             lines == Split(Val(source), NL)
             Part(line_num) ==
                 IF line_num = start_line
                 THEN SubSeq(lines[line_num + 1], start_col + 1,
                             Len(lines[line_num + 1]))
                 ELSE IF line_num = end_line
                 THEN Slice(lines[line_num + 1], 0, end_col)
                 ELSE lines[line_num + 1]
         IN  IF start_line = end_line
             THEN (IF start_line + 1 > Len(lines) THEN None
                   ELSE Some(Slice(lines[start_line + 1], start_col, end_col)))
             ELSE IF end_line + 1 > Len(lines) THEN None
             ELSE Some(Join([k \in 1..(end_line - start_line + 1) |->
                                 Part(start_line + k - 1)], <<NL>>))

MARK_percent == <<"%", BS, "%">>
MARK_dollar == <<"$", BS, "$">>

\* extract_raw_embed_content with only the colon-newline and the delimiter
\* line as signs of structure, and every unresolved content flagged
extract_raw_embed_content_as_stated(kson_value) ==
    LET content == kson_value.content
        has_marker == Contains(content, MARK_percent)
                      \/ Contains(content, MARK_dollar)
        has_kson_structure ==
            \/ Contains(content, <<":", NL>>)
            \/ Contains(content, <<NL, "$">>)
            \/ Contains(content, <<NL, "%">>)
    IN  IF has_marker /\ ~has_kson_structure
        THEN <<Replace(Replace(content, MARK_percent, <<"%", "%">>),
                       MARK_dollar, <<"$", "$">>), FALSE>>
        ELSE <<content, TRUE>>

\* extract_raw_embed_content: <<content, has_escapes>>
extract_raw_embed_content(kson_value) ==
    LET content == kson_value.content
        has_marker == Contains(content, MARK_percent)
                      \/ Contains(content, MARK_dollar)
        has_escapes == has_marker \/ HasChar(content, BS)
        has_kson_structure ==
            \/ Contains(content, <<":", NL>>)
            \/ Contains(content, <<":", CR>>)
            \/ Contains(content, <<":", SP>>)
            \/ Contains(content, <<NL, "$">>)
            \/ Contains(content, <<NL, "%">>)
    IN  IF has_marker /\ ~has_kson_structure
        THEN <<Replace(Replace(content, MARK_percent, <<"%", "%">>),
                       MARK_dollar, <<"$", "$">>), FALSE>>
        ELSE <<content, has_escapes>>

\* a faulty variant of BuildEmbed: the branch of embeds is missing
BuildEmbed_unsupported(kson_value) == Raise("EMBED")

\* kson_value_to_ast, lines 702-711: the node of an embed
BuildEmbed(kson_value) ==
    TomlEmbed(extract_raw_embed_content(kson_value)[1], kson_value.tag,
              kson_value.metadata, extract_raw_embed_content(kson_value)[2])

RECURSIVE kson_value_to_ast(_, _, _)
\* kson_value_to_ast; Raised stands for the ValueError it raises
kson_value_to_ast(kson_value, tokens, source) ==
    LET value_type == kson_value.type
        elements == [i \in 1..Len(kson_value.elements) |->
                        kson_value_to_ast(kson_value.elements[i], tokens,
                                          source)]
        properties == [i \in 1..Len(kson_value.properties) |->
                          <<kson_value.properties[i][1],
                            kson_value_to_ast(kson_value.properties[i][2],
                                              tokens, source)>>]
        start_line == IF kson_value.start # None
                      THEN Some(Val(kson_value.start)[1]) ELSE None
        end_line == IF kson_value.end # None
                    THEN Some(Val(kson_value.end)[1]) ELSE None
    IN  CASE value_type = "STRING" -> TomlString(kson_value.value, TRUE)
          [] value_type = "INTEGER" ->
                TomlInteger(kson_value.num,
                            extract_literal_text(kson_value, tokens, source))
          [] value_type = "DECIMAL" ->
                TomlFloat(kson_value.num,
                          extract_literal_text(kson_value, tokens, source))
          [] value_type = "BOOLEAN" -> TomlBoolean(kson_value.bvalue)
          [] value_type = "NULL" -> TomlNull
          [] value_type = "ARRAY" ->
                IF \E i \in 1..Len(elements) : IsRaised(elements[i])
                THEN FirstRaised(elements)
                ELSE TomlArray(elements, start_line, end_line)
          [] value_type = "OBJECT" ->
                IF \E i \in 1..Len(properties) : IsRaised(properties[i][2])
                THEN FirstRaised([i \in 1..Len(properties) |->
                                     properties[i][2]])
                ELSE TomlTable(properties)
          [] value_type = "EMBED" -> BuildEmbed(kson_value)
          [] OTHER -> Raise(value_type)

----------------------------------------------------------------------------
(* kson_to_toml_string: the Top-level Wrapper *)

TEXT_value_eq == <<"v", "a", "l", "u", "e", SP, "=", SP>>
TEXT_item_eq == <<"i", "t", "e", "m", SP, "=", SP>>
TEXT_list_item == <<"l", "i", "s", "t", "_", "i", "t", "e", "m">>
TEXT_item == <<"i", "t", "e", "m">>
TEXT_aot_value == <<"[", "[", "v", "a", "l", "u", "e", "]", "]">>
TEXT_embedBlock ==
    <<"[", "e", "m", "b", "e", "d", "B", "l", "o", "c", "k", "]">>
TEXT_embedTag == <<"e", "m", "b", "e", "d", "T", "a", "g">>
TEXT_embedContent_eq == TEXT_embedContent \o <<SP, "=", SP>>

\* comment_map when the argument is omitted
DefaultCommentMap == [leading |-> <<>>, inline |-> <<>>, trailing |-> <<>>]

\* lines 751-753: the last blank line is removed
DropLastBlank(result_lines) ==
    IF result_lines # <<>> /\ result_lines[Len(result_lines)] = <<>>
    THEN SubSeq(result_lines, 1, Len(result_lines) - 1)
    ELSE result_lines

\* a faulty variant of RootItemBlocks: the key is list_item when an element
\* is an array or a table
RootItemBlocks_list_item(ast_node, leading_comments) ==
    DropLastBlank(
        leading_comments
        \o Flatten([i \in 1..Len(ast_node.elements) |->
               <<TEXT_aot_value,
                 (IF HasArrayElement(ast_node) \/ HasTableElement(ast_node)
                  THEN TEXT_list_item ELSE TEXT_item)
                 \o <<SP, "=", SP>>
                 \o to_toml_default(ast_node.elements[i], 0),
                 <<>>>>]))

\* lines 741-753: a root array that needs_array_of_tables_format
RootItemBlocks(ast_node, leading_comments) ==
    DropLastBlank(
        leading_comments
        \o Flatten([i \in 1..Len(ast_node.elements) |->
               <<TEXT_aot_value,
                 TEXT_item_eq \o to_toml_default(ast_node.elements[i], 0),
                 <<>>>>]))

\* lines 768-790: the leading comments that stay before the line of the array
RootArrayOuter(leading_comments, inline_comments, has_nested_arrays) ==
    IF /\ leading_comments # <<>>
       /\ has_nested_arrays
       /\ inline_comments # <<>>
       /\ Len(inline_comments) >= 2
    THEN leading_comments
    ELSE IF /\ leading_comments # <<>>
            /\ Len(leading_comments) >= 2
            /\ inline_comments # <<>>
    THEN SubSeq(leading_comments, 1, Len(leading_comments) - 1)
    ELSE <<>>

\* lines 768-790: the comments handed to the array's to_toml
RootArrayComments(leading_comments, inline_comments, has_nested_arrays) ==
    IF /\ leading_comments # <<>>
       /\ has_nested_arrays
       /\ inline_comments # <<>>
       /\ Len(inline_comments) >= 2
    THEN inline_comments
    ELSE IF /\ leading_comments # <<>>
            /\ Len(leading_comments) >= 2
            /\ inline_comments # <<>>
    THEN Update(<<<<-1, <<leading_comments[Len(leading_comments)]>>>>>>,
                inline_comments)
    ELSE IF leading_comments # <<>>
    THEN Update(<<<<-1, leading_comments>>>>, inline_comments)
    ELSE inline_comments

\* lines 760-790: a root array that is not check_heterogeneous
RootPlainArray(ast_node, leading_comments, inline_comments, source) ==
    RootArrayOuter(leading_comments, inline_comments,
                   HasArrayElement(ast_node))
    \o <<TEXT_value_eq
         \o TomlArray_to_toml(ast_node, 0,
                RootArrayComments(leading_comments, inline_comments,
                                  HasArrayElement(ast_node)),
                source)>>

\* a faulty variant of the branch of lines 792-802: the metadata is preferred
RootTaggedEmbed_metadata(ast_node, leading_comments, inline_comments, source) ==
    leading_comments
    \o <<TEXT_embedBlock,
         TomlTable_to_toml(
             TomlTable(<<<<TEXT_embedTag,
                           TomlString(IF Truthy(ast_node.metadata)
                                      THEN Val(ast_node.metadata)
                                      ELSE Val(ast_node.tag), TRUE)>>,
                         <<TEXT_embedContent, ast_node>>>>),
             0, <<>>, inline_comments, source)>>

\* lines 792-802: a root embed with a tag or metadata
RootTaggedEmbed(ast_node, leading_comments, inline_comments, source) ==
    LET tag_value == IF Truthy(ast_node.tag) THEN Val(ast_node.tag)
                     ELSE Val(ast_node.metadata)
        embed_table == TomlTable(<<<<TEXT_embedTag,
                                     TomlString(tag_value, TRUE)>>,
                                   <<TEXT_embedContent, ast_node>>>>)
    IN  leading_comments
        \o <<TEXT_embedBlock,
             TomlTable_to_toml(embed_table, 0, <<>>, inline_comments, source)>>

\* lines 803-811: a root embed without tag and metadata
RootPlainEmbed(ast_node, leading_comments) ==
    IF leading_comments # <<>>
    THEN leading_comments \o <<TEXT_value_eq \o TomlEmbed_to_toml(ast_node)>>
    ELSE <<TEXT_embedContent_eq \o TomlEmbed_to_toml(ast_node)>>

\* lines 825-846: the block of one element of a check_heterogeneous root array
RootHeterogeneousBlock(elem, key_name, inline_comments, source) ==
    LET tables == SelectSeq(elem.elements,
                            LAMBDA e : isinstance(e, "TomlTable"))
        body ==
            IF isinstance(elem, "TomlTable")
            THEN <<TomlTable_to_toml(elem, 0, <<>>, inline_comments, source)>>
            ELSE IF isinstance(elem, "TomlArray") /\ HasTableElement(elem)
            THEN Flatten([i \in 1..Len(tables) |->
                     <<<<"[", "[", "v", "a", "l", "u", "e", ".">> \o key_name
                          \o <<"]", "]">>,
                       TomlTable_to_toml(tables[i], 0, <<>>, inline_comments,
                                         source)>>])
            ELSE <<key_name \o <<SP, "=", SP>>
                   \o to_toml(elem, 0, inline_comments, source)>>
    IN  <<TEXT_aot_value>> \o body \o <<<<>>>>

\* lines 812-847: a root array that is check_heterogeneous
RootHeterogeneous(ast_node, leading_comments, inline_comments, source) ==
    LET elements == ast_node.elements
        has_arrays == HasArrayElement(ast_node)
        has_tables == HasTableElement(ast_node)
        key_name == IF has_arrays \/ has_tables THEN TEXT_list_item
                    ELSE TEXT_item
    IN  leading_comments
        \o Flatten([i \in 1..Len(elements) |->
               RootHeterogeneousBlock(elements[i], key_name, inline_comments,
                                      source)])

\* kson_to_toml_string, lines 732-858: result_lines before the trailing
\* comments are added
RootLines(ast_node, leading_comments, inline_comments, source) ==
    IF ~isinstance(ast_node, "TomlTable")
    THEN IF /\ isinstance(ast_node, "TomlArray")
            /\ needs_array_of_tables_format(ast_node)
         THEN RootItemBlocks(ast_node, leading_comments)
         ELSE IF /\ isinstance(ast_node, "TomlArray")
                 /\ ~check_heterogeneous(ast_node)
         THEN RootPlainArray(ast_node, leading_comments, inline_comments,
                             source)
         ELSE IF /\ isinstance(ast_node, "TomlEmbed")
                 /\ (Truthy(ast_node.tag) \/ Truthy(ast_node.metadata))
         THEN RootTaggedEmbed(ast_node, leading_comments, inline_comments,
                              source)
         ELSE IF isinstance(ast_node, "TomlEmbed")
         THEN RootPlainEmbed(ast_node, leading_comments)
         ELSE IF /\ isinstance(ast_node, "TomlArray")
                 /\ check_heterogeneous(ast_node)
         THEN RootHeterogeneous(ast_node, leading_comments, inline_comments,
                                source)
         ELSE leading_comments
              \o <<TEXT_value_eq
                   \o to_toml(ast_node, 0, inline_comments, source)>>
    ELSE leading_comments
         \o <<TomlTable_to_toml(ast_node, 0, <<>>, inline_comments, source)>>

\* kson_to_toml_string, lines 860-865: trailing comments and the final text
FinalText(result_lines, trailing_comments) ==
    LET all == IF trailing_comments # <<>>
               THEN result_lines \o <<<<>>>> \o trailing_comments
               ELSE result_lines
    IN  IF all # <<>> THEN RStrip(Join(all, <<NL>>)) \o <<NL>> ELSE <<>>

\* kson_to_toml_string after the tree is built (lines 732-865)
RenderedText(ast_node, comment_map, source) ==
    FinalText(RootLines(ast_node, comment_map.leading, comment_map.inline,
                        source),
              comment_map.trailing)

----------------------------------------------------------------------------
(* The two entry points, as steps *)

TEXT_failed_to_parse ==
    <<"F", "a", "i", "l", "e", "d", SP, "t", "o", SP, "p", "a", "r", "s",
      "e", SP, "K", "s", "o", "n", ":", NL>>

TEXT_error_prefix == <<"E", "r", "r", "o", "r", ":", SP>>

TEXT_unsupported ==
    <<"T", "i", "p", "o", SP, "d", "e", SP, "v", "a", "l", "o", "r", SP, "K",
      "s", "o", "n", SP, "n", "o", SP, "s", "o", "p", "o", "r", "t", "a",
      "d", "o", ":", SP>>

NoResult == [kind |-> "none", text |-> <<>>]

\* a faulty variant of ParseFailureMessage: only the first diagnostic is kept
ParseFailureMessage_first(errs) ==
    TEXT_failed_to_parse \o TEXT_error_prefix \o errs[1]

\* kson2toml, lines 20-22: the message of the ValueError
ParseFailureMessage(errs) ==
    TEXT_failed_to_parse
    \o Join([i \in 1..Len(errs) |-> TEXT_error_prefix \o errs[i]], <<NL>>)

\* kson2toml, lines 18-22: the parser gave no value tree
kson2toml_ParseFailure ==
    /\ pc = "kson2toml"
    /\ analysis.kson_value = None
    /\ result' = [kind |-> "ValueError",
                  text |-> ParseFailureMessage(analysis.errors)]
    /\ pc' = "done"
    /\ UNCHANGED <<entry, kson_string, analysis, arg_comments, arg_source,
                   arg_tokens, ast, renders, rendered, extractor>>

\* kson2toml, line 24: kson_to_toml_string(kson_value), nothing else passed
kson2toml_Call ==
    /\ pc = "kson2toml"
    /\ analysis.kson_value # None
    /\ arg_comments' = None
    /\ arg_source' = None
    /\ arg_tokens' = None
    /\ pc' = "kson_to_toml_string"
    /\ UNCHANGED <<entry, kson_string, analysis, ast, result, renders,
                   rendered, extractor>>

\* kson_to_toml_string, lines 727-730: the tree is built, or ValueError leaves
BuildTree ==
    /\ pc = "kson_to_toml_string"
    /\ renders' = renders + 1
    /\ LET node == kson_value_to_ast(Val(analysis.kson_value), arg_tokens,
                                     arg_source)
       IN  /\ ast' = node
           /\ IF IsRaised(node)
              THEN /\ result' = [kind |-> "ValueError",
                                 text |-> TEXT_unsupported \o node.value]
                   /\ pc' = "done"
              ELSE /\ result' = result
                   /\ pc' = "built"
    /\ UNCHANGED <<entry, kson_string, analysis, arg_comments, arg_source,
                   arg_tokens, rendered, extractor>>

\* kson_to_toml_string, lines 727-728: the comment map in use
CommentMapUsed ==
    IF arg_comments = None THEN DefaultCommentMap ELSE Val(arg_comments)

\* TomlTable.to_toml, line 423 left out: the flag stays off
RestoredString_off(value) == [value EXCEPT !.allow_multiline = FALSE]

\* TomlTable.to_toml, line 423: the flag of the string is set again
RestoredString(value) == [value EXCEPT !.allow_multiline = TRUE]

RECURSIVE TableAfterRender(_)
\* the table as TomlTable.to_toml leaves it: the assignments of lines 421
\* and 423 in this table, in its nested tables and in the table elements
\* of its arrays of tables
TableAfterRender(node) ==
    LET After(key, value) ==
            IF key = TEXT_embedContent /\ isinstance(value, "TomlString")
            THEN RestoredString(value)
            ELSE IF isinstance(value, "TomlTable")
            THEN TableAfterRender(value)
            ELSE IF IsArrayOfTables(value)
            THEN [value EXCEPT !.elements =
                     [e \in 1..Len(value.elements) |->
                         IF isinstance(value.elements[e], "TomlTable")
                         THEN TableAfterRender(value.elements[e])
                         ELSE value.elements[e]]]
            ELSE value
    IN  [node EXCEPT !.properties =
            [i \in 1..Len(node.properties) |->
                <<node.properties[i][1],
                  After(node.properties[i][1], node.properties[i][2])>>]]

\* the tree as kson_to_toml_string leaves it: to_toml is called on a root
\* table and on the table elements of a root array of tables
TreeAfterRender(ast_node) ==
    IF isinstance(ast_node, "TomlTable") THEN TableAfterRender(ast_node)
    ELSE IF /\ isinstance(ast_node, "TomlArray")
            /\ needs_array_of_tables_format(ast_node)
    THEN [ast_node EXCEPT !.elements =
             [e \in 1..Len(ast_node.elements) |->
                 IF isinstance(ast_node.elements[e], "TomlTable")
                 THEN TableAfterRender(ast_node.elements[e])
                 ELSE ast_node.elements[e]]]
    ELSE ast_node

\* kson_to_toml_string, lines 732-865: the text is rendered and returned
RenderTree ==
    /\ pc = "built"
    /\ result' = [kind |-> "ok",
                  text |-> RenderedText(ast, CommentMapUsed, arg_source)]
    /\ ast' = TreeAfterRender(ast)
    /\ rendered' = TRUE
    /\ pc' = "done"
    /\ UNCHANGED <<entry, kson_string, analysis, arg_comments, arg_source,
                   arg_tokens, renders, extractor>>

----------------------------------------------------------------------------
(* Value trees the external parser can supply *)

KString(value) == [NoValue EXCEPT !.type = "STRING", !.value = value]

\* a number whose literal spans columns 0..width of line 0
KNumber(type, num, width) ==
    [NoValue EXCEPT !.type = type, !.num = num,
                    !.start = Some(<<0, 0>>), !.end = Some(<<0, width>>)]

KBoolean(b) == [NoValue EXCEPT !.type = "BOOLEAN", !.bvalue = b]

KNull == [NoValue EXCEPT !.type = "NULL"]

KArray(elements, first_line, last_line) ==
    [NoValue EXCEPT !.type = "ARRAY", !.elements = elements,
                    !.start = Some(<<first_line, 0>>),
                    !.end = Some(<<last_line, 0>>)]

KObject(properties) ==
    [NoValue EXCEPT !.type = "OBJECT", !.properties = properties]

KEmbed(content, tag, metadata) ==
    [NoValue EXCEPT !.type = "EMBED", !.content = content, !.tag = tag,
                    !.metadata = metadata]

\* a node of a kind the Node Builder does not know
KUnknown == [NoValue EXCEPT !.type = "UNKNOWN"]

\* bounds of the generated trees
MaxElems == 2
MaxProps == 2
MaxLong == 4
MaxStr == 3
MaxPieces == 3

K_s == KString(<<"s">>)
K_multiline == KString(<<"a", NL, "b">>)
K_int == KNumber("INTEGER", <<42, 0>>, 2)
K_dec == KNumber("DECIMAL", <<421, 1>>, 4)
K_embed == KEmbed(<<SP, SP, "x", NL, SP, SP, "y">>, None, None)
K_sql == KEmbed(<<"q">>, Some(<<"s", "q", "l">>), None)
K_meta == KEmbed(<<"q">>, None, Some(<<"m", "d">>))
K_tag_meta == KEmbed(<<"q">>, Some(<<"s", "q", "l">>), Some(<<"m", "d">>))
KEY_a == <<"a">>
KEY_b_c == <<"b", SP, "c">>
\* a table whose one property is a table
K_nested == KObject(<<<<KEY_b_c, KObject(<<<<KEY_a, K_int>>>>)>>>>)

Leaves ==
    {K_s, K_multiline, K_int, K_dec, KBoolean(TRUE), KBoolean(FALSE), KNull,
     K_embed, K_sql, K_meta, K_tag_meta, KUnknown}

\* nested values: arrays and objects that occur as elements and properties
Inner ==
    {KArray(<<>>, 1, 1),
     KArray(<<K_dec>>, 1, 2),
     KArray(<<KObject(<<<<KEY_a, K_int>>>>)>>, 1, 2),
     KObject(<<>>),
     KObject(<<<<KEY_a, K_int>>>>),
     KObject(<<<<KEY_a, KObject(<<<<KEY_b_c, KUnknown>>>>)>>>>),
     K_nested,
     KArray(<<K_nested>>, 1, 2)}

ElemPool ==
    {K_s, K_int, KBoolean(TRUE), KBoolean(FALSE), KNull, K_embed, KUnknown}
    \cup Inner

\* the keys of generated objects, in a fixed order
KeyPool == <<KEY_a, KEY_b_c, TEXT_embedContent>>

\* an array whose elements lie on lines 0 to 2 of the source
ArrayOf(es) == KArray(es, 0, 2)

InjectiveSeqs(n, m) ==
    {f \in [1..n -> 1..m] : \A i, j \in 1..n : i # j => f[i] # f[j]}

\* an object with the keys KeyPool[ks[i]] and the values vs[i], in this order
ObjectOf(ks, vs) ==
    KObject([i \in 1..Len(ks) |-> <<KeyPool[ks[i]], vs[i]>>])

\* the elements of arrays long enough for the multi-line layout
LongPool == {K_s, K_int}

\* string values over the characters the String renderer tells apart
StringAlphabet == {"a", "$", SP, TAB, NL, DQ, SQ, BS}

----------------------------------------------------------------------------
(* Inputs *)

COMMENT_1 == <<"#", "1">>
COMMENT_2 == <<"#", "2">>
COMMENT_3 == <<"#", "3">>
COMMENT_4 == <<"#", "4">>
COMMENT_5 == <<"#", "5">>
COMMENT_6 == <<"#", "6">>

\* comment maps of the shape the Comment Extractor returns
CommentMaps ==
    {[leading |-> l, inline |-> i, trailing |-> t] :
        l \in {<<>>, <<COMMENT_1>>, <<COMMENT_1, COMMENT_2>>},
        i \in {<<>>,
               <<<<1, <<COMMENT_3>>>>>>,
               <<<<1, <<COMMENT_3>>>>, <<2, <<COMMENT_4, COMMENT_5>>>>>>},
        t \in {<<>>, <<COMMENT_6>>}}

\* a source whose lines 0, 1 and 2 declare the keys of KeyPool
SOURCE_keys ==
    <<"a", ":", SP, "1", NL, DQ, "b", SP, "c", DQ, ":", SP, "2", NL>>
    \o TEXT_embedContent \o <<":", SP, "3">>

\* a source whose lines 1 and 2 both declare the key a
SOURCE_repeated_key ==
    <<DQ, "b", SP, "c", DQ, ":", SP, "1", NL, "a", ":", SP, "2", NL,
      SP, SP, "a", ":", SP, "3">>

SmallPool ==
    {K_s, K_int, KArray(<<K_dec>>, 1, 2), KObject(<<<<KEY_a, K_int>>>>),
     K_embed}

CommentedLeaves == {K_s, KNull, K_embed, K_sql, K_meta, K_tag_meta}

\* numeric literals of the source notation with the value the parser gives them
NumberLiterals ==
    {[text |-> <<"4", "2">>,
      type |-> "INTEGER", num |-> <<42, 0>>],
     [text |-> <<"4", "2", ".", "1">>,
      type |-> "DECIMAL", num |-> <<421, 1>>],
     [text |-> <<"4", "2", ".", "1", "e", "0">>,
      type |-> "DECIMAL", num |-> <<421, 1>>],
     [text |-> <<"4", ".", "2", "1", "e", "1">>,
      type |-> "DECIMAL", num |-> <<421, 1>>],
     [text |-> <<"4", "2", "1", "e", "-", "1">>,
      type |-> "DECIMAL", num |-> <<421, 1>>],
     [text |-> <<"0", ".", "4", "2", "1", "e", "+", "2">>,
      type |-> "DECIMAL", num |-> <<421, 1>>],
     [text |-> <<"-", "4", "2", ".", "1">>,
      type |-> "DECIMAL", num |-> <<-421, 1>>],
     [text |-> <<"-", "4", "2", ".", "1", "e", "0">>,
      type |-> "DECIMAL", num |-> <<-421, 1>>]}

NumberTree(lit) == KNumber(lit.type, lit.num, Len(lit.text))

SOURCE_dash_list ==
    <<"#", SP, "1", NL, "-", SP, "o", "n", "e", NL,
      "#", SP, "2", NL, "-", SP, "t", "w", "o">>
TREE_dash_list ==
    KArray(<<KString(<<"o", "n", "e">>), KString(<<"t", "w", "o">>)>>, 1, 3)
COMMENTS_dash_list ==
    [leading |-> <<<<"#", SP, "1">>>>,
     inline |-> <<<<3, <<<<"#", SP, "2">>>>>>>>,
     trailing |-> <<>>]

SOURCE_object ==
    <<"#", "c", "o", "m", "m", "e", "n", "t", NL, "a", ":", SP, "b">>
TREE_object == KObject(<<<<KEY_a, KString(<<"b">>)>>>>)

\* the pieces the contents of the embeds are put together from
EmbedPieces ==
    {MARK_percent, MARK_dollar, <<":", NL>>, <<":", SP>>, <<":", CR>>,
     <<NL, "$">>, <<NL, "%">>, <<BS>>, <<"a">>, <<NL>>, <<SP, SP, "a">>}

\* keys on both sides of the quoting rule
SampleKeys ==
    {KEY_a, KEY_b_c, <<"a", "-", "b">>, <<"t", "r", "u", "e">>,
     <<"f", "a", "l", "s", "e">>, <<"n", "u", "l", "l">>}

\* a table with one sample key, alone and inside a nested list
KeyTrees ==
    {KObject(<<<<key, K_int>>>>) : key \in SampleKeys}
    \cup {KArray(<<KArray(<<KObject(<<<<key, K_int>>>>)>>, 1, 2)>>, 1, 2) :
              key \in SampleKeys}

\* the test sources whose tokens and source text reach kson_to_toml_string
LiteralInputs ==
    {[kson_value |-> NumberTree(lit), comment_map |-> None,
      source |-> Some(lit.text)] : lit \in NumberLiterals}
    \cup {[kson_value |-> TREE_dash_list,
           comment_map |-> Some(COMMENTS_dash_list),
           source |-> Some(SOURCE_dash_list)]}

\* calls of kson2toml: the source text and what Kson.analyze makes of it
ConvertInputs ==
    {[kson_string |-> lit.text, kson_value |-> Some(NumberTree(lit)),
      errors |-> <<>>] : lit \in NumberLiterals}
    \cup {[kson_string |-> <<"t", "r", "u", "e">>,
           kson_value |-> Some(KBoolean(TRUE)), errors |-> <<>>],
          [kson_string |-> <<"f", "a", "l", "s", "e">>,
           kson_value |-> Some(KBoolean(FALSE)), errors |-> <<>>],
          [kson_string |-> <<"n", "u", "l", "l">>,
           kson_value |-> Some(KNull), errors |-> <<>>],
          [kson_string |-> <<"{", "}">>,
           kson_value |-> Some(KObject(<<>>)), errors |-> <<>>],
          [kson_string |-> SOURCE_object,
           kson_value |-> Some(TREE_object), errors |-> <<>>],
          [kson_string |-> SOURCE_dash_list,
           kson_value |-> Some(TREE_dash_list), errors |-> <<>>]}
    \cup {[kson_string |-> <<"{">>, kson_value |-> None, errors |-> e] :
             e \in {<<<<"E", "1">>>>, <<<<"E", "1">>, <<"E", "2">>>>}}

\* kson_to_toml_string(kson_value): the value tree alone
PlainCall(t) ==
    /\ analysis = [kson_value |-> Some(t), errors |-> <<>>]
    /\ arg_comments = None
    /\ arg_source = None
    /\ arg_tokens = None

\* kson_to_toml_string(kson_value, comment_map, source), source optional
CommentedCall(t) ==
    \E cm \in CommentMaps,
       src \in {None, Some(SOURCE_keys), Some(SOURCE_repeated_key)} :
        /\ analysis = [kson_value |-> Some(t), errors |-> <<>>]
        /\ arg_comments = Some(cm)
        /\ arg_source = src
        /\ arg_tokens = None

\* extract_comments_with_mapping, lines 593-601: its locals before the loop
ExtractorStart ==
    [line_num |-> 0, leading_comments |-> <<>>, inline_comments |-> <<>>,
     trailing_comments |-> <<>>, pending_comments |-> <<>>,
     found_first_content |-> FALSE]

Init ==
    /\ ast = NoNode
    /\ result = NoResult
    /\ renders = 0
    /\ rendered = FALSE
    /\ extractor = ExtractorStart
    /\ \/ \E c \in ConvertInputs :
             /\ entry = "kson2toml"
             /\ pc = "kson2toml"
             /\ kson_string = c.kson_string
             /\ analysis = [kson_value |-> c.kson_value, errors |-> c.errors]
             /\ arg_comments = None
             /\ arg_source = None
             /\ arg_tokens = None
       \/ /\ entry = "kson_to_toml_string"
          /\ pc = "kson_to_toml_string"
          /\ kson_string = <<>>
          /\ \/ \E t \in Leaves : PlainCall(t)
             \/ \E n \in 0..MaxElems : \E es \in [1..n -> ElemPool] :
                   PlainCall(ArrayOf(es))
             \/ \E n \in 0..MaxProps :
                   \E ks \in InjectiveSeqs(n, Len(KeyPool)),
                      vs \in [1..n -> ElemPool] :
                       PlainCall(ObjectOf(ks, vs))
             \/ \E n \in (MaxElems + 1)..MaxLong :
                   \E es \in [1..n -> LongPool] : PlainCall(ArrayOf(es))
             \/ \E n \in 0..MaxStr : \E value \in [1..n -> StringAlphabet] :
                   PlainCall(KString(value))
             \/ \E n \in 0..MaxStr : \E value \in [1..n -> StringAlphabet] :
                   PlainCall(KObject(<<<<TEXT_embedContent,
                                         KString(value)>>>>))
             \/ \E t \in KeyTrees : PlainCall(t)
             \/ \E n \in 0..MaxPieces : \E ps \in [1..n -> EmbedPieces] :
                   PlainCall(KEmbed(Join(ps, <<>>), None, None))
             \/ \E t \in CommentedLeaves : CommentedCall(t)
             \/ \E n \in 0..MaxElems : \E es \in [1..n -> SmallPool] :
                   CommentedCall(ArrayOf(es))
             \/ \E n \in 0..MaxProps :
                   \E ks \in InjectiveSeqs(n, Len(KeyPool)),
                      vs \in [1..n -> SmallPool] :
                       CommentedCall(ObjectOf(ks, vs))
             \/ \E r \in LiteralInputs :
                   /\ analysis = [kson_value |-> Some(r.kson_value),
                                  errors |-> <<>>]
                   /\ arg_comments = r.comment_map
                   /\ arg_source = r.source
                   /\ arg_tokens = Some(<<"tokens">>)

Next ==
    \/ kson2toml_ParseFailure
    \/ kson2toml_Call
    \/ BuildTree
    \/ RenderTree

Spec == Init /\ [][Next]_vars

----------------------------------------------------------------------------
(* The Comment Extractor: extract_comments_with_mapping, one step per line *)

\* line 584: kson_string.split('\n')
ExtractorLines == Split(kson_string, NL)

\* line 606: '#' in stripped and not stripped.startswith('#')
HasSameLineComment(stripped) ==
    HasChar(stripped, "#") /\ ~StartsWith(stripped, <<"#">>)

\* lines 608-615: the comment of a line that also holds content
SameLineComment(comment_text) ==
    IF StartsWith(comment_text, <<SP>>)
    THEN <<"#", SP>> \o Tail(comment_text)
    ELSE <<"#">> \o comment_text

\* lines 617-625: leading when no content was seen, else keyed to the line
\* after this one
ReadSameLineComment(e, n, comment) ==
    IF ~e.found_first_content
    THEN [e EXCEPT !.leading_comments = Append(@, comment),
                   !.found_first_content = TRUE]
    ELSE [e EXCEPT !.inline_comments =
                       Put(@, n + 1,
                           (IF HasKey(@, n + 1) THEN Get(@, n + 1) ELSE <<>>)
                           \o <<comment>>)]

\* lines 628-640: a content line takes the buffered comment-only lines
ReadContent(e, n) ==
    IF ~e.found_first_content
    THEN [e EXCEPT !.leading_comments = @ \o e.pending_comments,
                   !.pending_comments = <<>>,
                   !.found_first_content = TRUE]
    ELSE IF e.pending_comments # <<>>
    THEN [e EXCEPT !.inline_comments = Put(@, n, e.pending_comments),
                   !.pending_comments = <<>>]
    ELSE e

\* lines 602-640: the body of the loop for line n (0-based) of the source
ReadLine(e, n, stripped) ==
    IF HasSameLineComment(stripped)
    THEN ReadSameLineComment(e, n,
             SameLineComment(Split1(stripped, "#")[2]))
    ELSE IF StartsWith(stripped, <<"#">>)
    THEN [e EXCEPT !.pending_comments = Append(@, stripped)]
    ELSE IF stripped # <<>>
    THEN ReadContent(e, n)
    ELSE e

\* lines 642-647: the comments still buffered when the lines are exhausted
FlushPending(e) ==
    IF e.pending_comments = <<>> THEN e
    ELSE IF ~e.found_first_content
    THEN [e EXCEPT !.leading_comments = @ \o e.pending_comments]
    ELSE [e EXCEPT !.trailing_comments = @ \o e.pending_comments]

\* one turn of the loop of lines 602-640
ExtractLine ==
    /\ pc = "extract_comments_with_mapping"
    /\ extractor.line_num < Len(ExtractorLines)
    /\ extractor' =
           [ReadLine(extractor, extractor.line_num,
                     Strip(ExtractorLines[extractor.line_num + 1]))
               EXCEPT !.line_num = @ + 1]
    /\ UNCHANGED <<pc, entry, kson_string, analysis, arg_comments, arg_source,
                   arg_tokens, ast, result, renders, rendered>>

\* lines 642-656: the buffer is flushed and the three collections returned
ExtractReturn ==
    /\ pc = "extract_comments_with_mapping"
    /\ extractor.line_num = Len(ExtractorLines)
    /\ extractor' = FlushPending(extractor)
    /\ pc' = "extracted"
    /\ UNCHANGED <<entry, kson_string, analysis, arg_comments, arg_source,
                   arg_tokens, ast, result, renders, rendered>>

MaxLines == 4

\* lines of a source: blank, comment-only, content, content with a comment
LinePool ==
    {<<>>,
     <<"#", "1">>,
     <<SP, "#", SP, "2">>,
     <<"a">>,
     <<"b", SP, "#", SP, "3">>,
     <<SP, "c", "#", "4">>}

\* extract_comments_with_mapping(kson_string, tokens) is called
ExtractInit ==
    /\ entry = "extract_comments_with_mapping"
    /\ pc = "extract_comments_with_mapping"
    /\ \E n \in 0..MaxLines : \E ls \in [1..n -> LinePool] :
           kson_string = Join(ls, <<NL>>)
    /\ analysis = [kson_value |-> None, errors |-> <<>>]
    /\ arg_comments = None
    /\ arg_source = None
    /\ arg_tokens = None
    /\ ast = NoNode
    /\ result = NoResult
    /\ renders = 0
    /\ rendered = FALSE
    /\ extractor = ExtractorStart

ExtractNext ==
    \/ ExtractLine
    \/ ExtractReturn

ExtractSpec == ExtractInit /\ [][ExtractNext]_vars

----------------------------------------------------------------------------
(* Properties *)

\* kson_to_toml_string or kson2toml has returned text
Returned == pc = "done" /\ result.kind = "ok"

\* the value tree is absent when the parser reported errors
HasTree == analysis.kson_value # None

RECURSIVE HasUnknown(_)
\* a node of the value tree, at any depth, is of no recognised kind
HasUnknown(kson_value) ==
    \/ kson_value.type \notin RecognisedTypes
    \/ \E i \in 1..Len(kson_value.elements) :
           HasUnknown(kson_value.elements[i])
    \/ \E i \in 1..Len(kson_value.properties) :
           HasUnknown(kson_value.properties[i][2])

\* the text ends with a newline that no other newline precedes
EndsWithOneNewline(text) ==
    /\ Len(text) >= 1
    /\ text[Len(text)] = NL
    /\ Len(text) >= 2 => text[Len(text) - 1] # NL

\* the number of lines of the text that are comments
CommentLineCount(text) ==
    Cardinality({i \in 1..Len(Split(text, NL)) :
                    StartsWith(Strip(Split(text, NL)[i]), <<"#">>)})

\* the first index of lines at which a line starts with prefix,
\* Len(lines) + 1 when there is none
FirstStartingWith(lines, prefix) ==
    IF \E j \in 1..Len(lines) : StartsWith(lines[j], prefix)
    THEN CHOOSE j \in 1..Len(lines) :
             /\ StartsWith(lines[j], prefix)
             /\ \A k \in 1..(j - 1) : ~StartsWith(lines[k], prefix)
    ELSE Len(lines) + 1

\* the lines before and after the body of a returned text that has a body
WithComments(body_lines) ==
    Join(CommentMapUsed.leading \o body_lines
         \o (IF CommentMapUsed.trailing # <<>>
             THEN <<<<>>>> \o CommentMapUsed.trailing ELSE <<>>),
         <<NL>>) \o <<NL>>

\* C1: the text kson_to_toml_string returns ends with exactly one newline,
\* except that it is empty when the root is an empty table and there are no
\* leading or trailing comments
C1_OneNewlineOrEmpty ==
    Returned =>
        IF /\ ast = TomlTable(<<>>)
           /\ CommentMapUsed.leading = <<>>
           /\ CommentMapUsed.trailing = <<>>
        THEN result.text = <<>>
        ELSE EndsWithOneNewline(result.text)

\* C2: the text kson2toml returns has as many comment lines as the source
C2_CommentCountPreserved ==
    (entry = "kson2toml" /\ Returned) =>
        CommentLineCount(result.text) = CommentLineCount(kson_string)

\* C3: in the lines of a rendered table every scalar property, Embed-valued
\* ones included, has its key = value line, in declaration order, before the
\* first [path] or [[path]] header line
C3_ScalarsBeforeHeaders ==
    (Returned /\ isinstance(ast, "TomlTable")) =>
        LET lines == TomlTable_lines(ast, 0, <<>>, CommentMapUsed.inline,
                                     arg_source)
            simple == simple_values(ast)
            first_header == FirstStartingWith(lines, <<"[">>)
            Pos(i) == FirstStartingWith(lines, BlockKeyStr(simple[i][1])
                                               \o <<SP, "=", SP>>)
        IN  /\ \A i \in 1..Len(simple) : Pos(i) < first_header
            /\ \A i \in 1..(Len(simple) - 1) : Pos(i) < Pos(i + 1)

PrimitiveKind(node) ==
    CASE isinstance(node, "TomlString") -> "string"
      [] isinstance(node, "TomlInteger") -> "number"
      [] isinstance(node, "TomlFloat") -> "number"
      [] isinstance(node, "TomlBoolean") -> "boolean"
      [] isinstance(node, "TomlNull") -> "null"
      [] OTHER -> "none"

\* a root array of two or more primitives of at least two distinct kinds
MixedPrimitives ==
    /\ isinstance(ast, "TomlArray")
    /\ Len(ast.elements) >= 2
    /\ \A i \in 1..Len(ast.elements) : PrimitiveKind(ast.elements[i]) # "none"
    /\ \E i, j \in 1..Len(ast.elements) :
           PrimitiveKind(ast.elements[i]) # PrimitiveKind(ast.elements[j])

\* the blocks of a root array: a header and an item line for every element,
\* a blank line between two blocks
ItemBlocks(elements) ==
    Flatten([i \in 1..Len(elements) |->
        <<TEXT_aot_value,
          TEXT_item_eq \o to_toml(elements[i], 0, <<>>, None)>>
        \o (IF i < Len(elements) THEN <<<<>>>> ELSE <<>>)])

\* C4: a root array of two or more primitives of at least two distinct kinds
\* is returned as one [[value]] header and one item = <element> line per
\* element, in element order, one blank line between consecutive blocks
C4_ItemBlocks ==
    (Returned /\ MixedPrimitives) =>
        result.text = WithComments(ItemBlocks(ast.elements))

C4_Witness ==
    /\ Returned
    /\ MixedPrimitives
    /\ Len(ast.elements) = 2
    /\ isinstance(ast.elements[1], "TomlString")
    /\ isinstance(ast.elements[2], "TomlInteger")

\* C5: for a source that is one numeric literal kson2toml returns value =
\* followed by the characters of the literal as written
C5_LiteralPreserved ==
    (/\ entry = "kson2toml"
     /\ Returned
     /\ (isinstance(ast, "TomlInteger") \/ isinstance(ast, "TomlFloat"))) =>
        result.text = TEXT_value_eq \o kson_string \o <<NL>>

\* C6: when the parser supplies no value tree kson2toml fails with one error
\* that holds every diagnostic message, kson_to_toml_string is never called
\* and no text is returned
C6_ParseFailureAggregates ==
    (entry = "kson2toml" /\ ~HasTree) =>
        /\ renders = 0
        /\ ~rendered
        /\ result.kind # "ok"
        /\ pc \in {"kson2toml", "done"}
        /\ pc = "done" =>
              /\ result.kind = "ValueError"
              /\ StartsWith(result.text, TEXT_failed_to_parse)
              /\ \A i \in 1..Len(analysis.errors) :
                     Contains(result.text,
                              TEXT_error_prefix \o analysis.errors[i])

C6_Witness ==
    /\ entry = "kson2toml"
    /\ ~HasTree
    /\ Len(analysis.errors) = 2
    /\ pc = "done"
    /\ result.kind = "ValueError"

\* C7: when a node of the value tree, at any depth, is of no recognised kind
\* the conversion fails with the unsupported-kind error before any text is
\* rendered, and no text is returned
C7_UnsupportedKindAborts ==
    (HasTree /\ HasUnknown(Val(analysis.kson_value))) =>
        /\ ~rendered
        /\ result.kind # "ok"
        /\ pc # "built"
        /\ pc = "done" =>
              /\ result.kind = "ValueError"
              /\ StartsWith(result.text, TEXT_unsupported)

\* the unknown node is two levels below the root
C7_Witness ==
    /\ pc = "done"
    /\ result.kind = "ValueError"
    /\ HasTree
    /\ Val(analysis.kson_value).type = "ARRAY"
    /\ \E i \in 1..Len(Val(analysis.kson_value).elements) :
           LET elem == Val(analysis.kson_value).elements[i]
           IN  /\ elem.type = "OBJECT"
               /\ HasUnknown(elem)

\* C8: for a value tree of recognised kinds only, and any comment map, the
\* conversion is at a step that can be taken until it has returned, and what
\* it returns is text, never an error
C8_RenderingIsTotal ==
    (HasTree /\ ~HasUnknown(Val(analysis.kson_value))) =>
        /\ pc \in {"kson2toml", "kson_to_toml_string", "built", "done"}
        /\ pc = "built" => ~IsRaised(ast)
        /\ pc = "done" => result.kind = "ok" /\ rendered

\* a nested array, a table and an embed under a root array, with comments
C8_Witness ==
    /\ Returned
    /\ arg_comments # None
    /\ Truthy(arg_source)
    /\ Val(arg_comments).inline # <<>>
    /\ isinstance(ast, "TomlArray")
    /\ \E i, j \in 1..Len(ast.elements) :
           /\ isinstance(ast.elements[i], "TomlArray")
           /\ isinstance(ast.elements[j], "TomlEmbed")

\* a root string value without quote, backslash and newline
PlainString ==
    /\ HasTree
    /\ Val(analysis.kson_value).type = "STRING"
    /\ \A c \in {SQ, DQ, BS, NL} : ~HasChar(Val(analysis.kson_value).value, c)

\* the root string between double quotes, its characters unchanged
QuotedUnchanged ==
    result.text = WithComments(<<TEXT_value_eq \o <<DQ>>
                                 \o Val(analysis.kson_value).value
                                 \o <<DQ>>>>)

\* C9, as stated: a string value without single quote, double quote,
\* backslash and newline is rendered as a double quote, the value unchanged,
\* and a double quote
C9_PlainStringUnchanged == (Returned /\ PlainString) => QuotedUnchanged

\* C9, amended: the same, for a string value that has no tab either and no
\* dollar sign followed by a space or a tab
C9_PlainStringWithoutTab ==
    (/\ Returned
     /\ PlainString
     /\ ~HasChar(Val(analysis.kson_value).value, TAB)
     /\ ~Contains(Val(analysis.kson_value).value, <<"$", SP>>)
     /\ ~Contains(Val(analysis.kson_value).value, <<"$", TAB>>)) =>
        QuotedUnchanged

C9_Witness ==
    /\ Returned
    /\ PlainString
    /\ Val(analysis.kson_value).value = <<"$", "a", SP>>
    /\ result.text = <<"v", "a", "l", "u", "e", SP, "=", SP,
                       DQ, "$", "a", SP, DQ, NL>>

\* what a Boolean or a Null is written as
BooleanOrNullText(node) ==
    IF isinstance(node, "TomlNull") THEN <<DQ, "n", "u", "l", "l", DQ>>
    ELSE IF node.bvalue THEN <<"t", "r", "u", "e">>
    ELSE <<"f", "a", "l", "s", "e">>

IsBooleanOrNull(node) ==
    isinstance(node, "TomlBoolean") \/ isinstance(node, "TomlNull")

\* C10: a root Boolean is returned as the line value = true or value = false,
\* a root Null as the line value = "null"; Booleans and Nulls that are the
\* elements of an array or the values of properties are written the same way
C10_BooleanAndNull ==
    /\ (Returned /\ IsBooleanOrNull(ast)) =>
          result.text =
              WithComments(<<TEXT_value_eq \o BooleanOrNullText(ast)>>)
    /\ (/\ Returned
        /\ arg_comments = None
        /\ isinstance(ast, "TomlArray")
        /\ ast.elements # <<>>
        /\ \A i \in 1..Len(ast.elements) : IsBooleanOrNull(ast.elements[i])
        /\ \A i, j \in 1..Len(ast.elements) :
               ast.elements[i].cls = ast.elements[j].cls) =>
          result.text =
              TEXT_value_eq \o <<"[">>
              \o Join([i \in 1..Len(ast.elements) |->
                          BooleanOrNullText(ast.elements[i])], <<",", SP>>)
              \o <<"]", NL>>
    /\ (/\ Returned
        /\ arg_comments = None
        /\ isinstance(ast, "TomlTable")
        /\ ast.properties # <<>>
        /\ \A i \in 1..Len(ast.properties) :
               IsBooleanOrNull(ast.properties[i][2])) =>
          result.text =
              Join([i \in 1..Len(ast.properties) |->
                       BlockKeyStr(ast.properties[i][1]) \o <<SP, "=", SP>>
                       \o BooleanOrNullText(ast.properties[i][2])], <<NL>>)
              \o <<NL>>

\* false and null as the values of the properties of a root table
C10_Witness ==
    /\ Returned
    /\ ast = TomlTable(<<<<KEY_a, TomlBoolean(FALSE)>>, <<KEY_b_c, TomlNull>>>>)
    /\ result.text = <<"a", SP, "=", SP, "f", "a", "l", "s", "e", NL,
                       DQ, "b", SP, "c", DQ, SP, "=", SP,
                       DQ, "n", "u", "l", "l", DQ, NL>>


\* a root Embed with a tag or metadata
TaggedEmbed ==
    /\ isinstance(ast, "TomlEmbed")
    /\ Truthy(ast.tag) \/ Truthy(ast.metadata)

\* the header of the block and the line of the tag: the tag when there is
\* one, the metadata otherwise
EmbedBlockHead ==
    <<TEXT_embedBlock,
      TEXT_embedTag \o <<SP, "=", SP, DQ>>
      \o (IF Truthy(Val(analysis.kson_value).tag)
          THEN Val(Val(analysis.kson_value).tag)
          ELSE Val(Val(analysis.kson_value).metadata))
      \o <<DQ>>>>

\* C11: a root Embed with a tag or metadata is returned as the header
\* [embedBlock], then embedTag = "<t>" with t the tag when a tag is present
\* and the metadata otherwise, then embedContent = and the triple-quoted
\* literal of the embed; the leading comments come before the header
C11_TaggedEmbedBlock ==
    (Returned /\ TaggedEmbed) =>
        /\ StartsWith(result.text,
               Join(CommentMapUsed.leading \o EmbedBlockHead, <<NL>>)
               \o <<NL>>)
        /\ Contains(result.text,
               <<NL>> \o TEXT_embedContent_eq \o TomlEmbed_to_toml(ast))
        /\ (CommentMapUsed.inline = <<>> \/ arg_source = None) =>
               result.text =
                   WithComments(EmbedBlockHead
                       \o <<TEXT_embedContent_eq \o TomlEmbed_to_toml(ast)>>)

\* tag and metadata both present, leading comments given
C11_Witness ==
    /\ Returned
    /\ TaggedEmbed
    /\ Truthy(ast.tag)
    /\ Truthy(ast.metadata)
    /\ arg_comments # None
    /\ Len(Val(arg_comments).leading) = 2

\* the source text of the call: the argument of kson2toml, or the source
\* argument of kson_to_toml_string
SourceText == IF entry = "kson2toml" THEN Some(kson_string) ELSE arg_source

\* line i of the source is an element of a dash list
IsDashLine(lines, i) == StartsWith(lines[i], <<"-", SP>>)

\* the source is a dash list of bare words, every element preceded by its own
\* group of comment lines
IsCommentedDashList(lines) ==
    /\ lines # <<>>
    /\ \A i \in 1..Len(lines) :
           \/ StartsWith(lines[i], <<"#">>)
           \/ /\ IsDashLine(lines, i)
              /\ i > 1
              /\ StartsWith(lines[i - 1], <<"#">>)
    /\ IsDashLine(lines, Len(lines))

\* the multi-line array of a commented dash list: every comment line and
\* every element of the source on a line of its own, in source order
DashListArrayLines(lines) ==
    <<TEXT_value_eq \o <<"[">>>>
    \o [i \in 1..Len(lines) |->
           IF IsDashLine(lines, i)
           THEN Indent(1) \o <<DQ>> \o SubSeq(lines[i], 3, Len(lines[i]))
                \o <<DQ>> \o (IF i < Len(lines) THEN <<",">> ELSE <<>>)
           ELSE Indent(1) \o lines[i]]
    \o <<<<"]">>>>

\* C12: converting a dash list of n elements of one primitive kind, every
\* element preceded by its own group of comment lines, returns a bracketed
\* multi-line array in which every element is directly preceded by exactly
\* its own comment lines, groups and elements in source order, none lost
C12_DashListComments ==
    (/\ Returned
     /\ SourceText # None
     /\ IsCommentedDashList(Split(Val(SourceText), NL))
     /\ isinstance(ast, "TomlArray")) =>
        result.text =
            Join(DashListArrayLines(Split(Val(SourceText), NL)), <<NL>>)
            \o <<NL>>

\* kson_to_toml_string given the comment map and the source of a commented
\* dash list returns the multi-line array
C12_DirectCallKeepsComments ==
    (entry = "kson2toml") \/ C12_DashListComments

\* the line holds nothing but a comment
IsCommentOnly(line) == StartsWith(Strip(line), <<"#">>)

\* a content line: not blank and not comment-only
IsContent(line) == Strip(line) # <<>> /\ ~IsCommentOnly(line)

\* the 0-based numbers of the content lines
ContentLines(lines) == {j \in 0..(Len(lines) - 1) : IsContent(lines[j + 1])}

\* the number of the first content line after line i, which has one
NextContent(lines, i) ==
    CHOOSE j \in ContentLines(lines) :
        /\ j > i
        /\ \A k \in ContentLines(lines) : k > i => j <= k

\* where the comment-only line i of the source belongs by its position
PlacedByPosition(lines, i, e) ==
    IF \A j \in ContentLines(lines) : j > i
    THEN Strip(lines[i + 1]) \in Range(e.leading_comments)
    ELSE IF \E j \in ContentLines(lines) : j > i
    THEN /\ HasKey(e.inline_comments, NextContent(lines, i))
         /\ Strip(lines[i + 1])
                \in Range(Get(e.inline_comments, NextContent(lines, i)))
    ELSE Strip(lines[i + 1]) \in Range(e.trailing_comments)

\* extract_comments_with_mapping has returned
Extracted == pc = "extracted"

\* C13: the extractor puts every comment-only line before the first content
\* line in leading, every one between two content lines in inline under the
\* number of the next content line, every one after the last content line in
\* trailing; found_first_content is set exactly when a content line has
\* been read
C13_ClassifiedByPosition ==
    /\ entry = "extract_comments_with_mapping" =>
           extractor.found_first_content =
               (\E j \in ContentLines(ExtractorLines) :
                    j < extractor.line_num)
    /\ Extracted =>
           \A i \in 0..(Len(ExtractorLines) - 1) :
               IsCommentOnly(ExtractorLines[i + 1]) =>
                   PlacedByPosition(ExtractorLines, i, extractor)

\* the source has no line that holds both content and a comment
NoSameLineComment ==
    \A i \in 1..Len(ExtractorLines) :
        ~HasSameLineComment(Strip(ExtractorLines[i]))

\* the classification by position holds for the sources in which no content
\* line carries a comment
C13_WithoutSameLineComments == NoSameLineComment => C13_ClassifiedByPosition

\* line i of the source holds content and a comment, and a content line
\* comes before it, so that its comment is not leading
IsLaterSameLineComment(lines, i) ==
    /\ HasSameLineComment(Strip(lines[i + 1]))
    /\ \E j \in ContentLines(lines) : j < i

\* the comment of line i is stored under the next content line, if any
StoredUnderNextContent(lines, i, e) ==
    (\E j \in ContentLines(lines) : j > i) =>
        /\ HasKey(e.inline_comments, NextContent(lines, i))
        /\ SameLineComment(Split1(Strip(lines[i + 1]), "#")[2])
               \in Range(Get(e.inline_comments, NextContent(lines, i)))

\* C14: a comment that shares its line with content and is not leading is
\* stored in inline under the number of the next content line after it, and
\* every key of inline is the number of a line of the source that holds
\* content
C14_InlineKeysAreContentLines ==
    Extracted =>
        /\ \A i \in 0..(Len(ExtractorLines) - 1) :
               IsLaterSameLineComment(ExtractorLines, i) =>
                   StoredUnderNextContent(ExtractorLines, i, extractor)
        /\ \A k \in Range(Keys(extractor.inline_comments)) :
               k \in ContentLines(ExtractorLines)

\* without a comment on a content line, every key of inline is the number
\* of a content line
C14_WithoutSameLineComments ==
    NoSameLineComment => C14_InlineKeysAreContentLines

\* the 0-based numbers of the source lines that declare the key: the text
\* before the first colon, stripped and unquoted, is the key
DeclaringLines(source_lines, key) ==
    {n \in 0..(Len(source_lines) - 1) :
        /\ HasChar(Strip(source_lines[n + 1]), ":")
        /\ ~StartsWith(Strip(source_lines[n + 1]), <<"#">>)
        /\ KeyPart(Strip(source_lines[n + 1])) = key}

\* the largest member of a non-empty finite set of integers
Last(S) == CHOOSE n \in S : \A k \in S : k <= n

\* the smallest member of a non-empty finite set of integers
First(S) == CHOOSE n \in S : \A k \in S : n <= k

\* the key = value line, or lines, of a simple property of the root table
PropertyText(key, value) ==
    BlockKeyStr(key) \o <<SP, "=", SP>>
    \o to_toml(SimpleValueNode(key, value), 0, <<>>, arg_source) \o <<NL>>

\* the comment group stands in the text directly above the property
DirectlyAbove(text, group, property_text) ==
    \/ StartsWith(text, Join(group, <<NL>>) \o <<NL>> \o property_text)
    \/ Contains(text,
           <<NL>> \o Join(group, <<NL>>) \o <<NL>> \o property_text)

\* a root table rendered with a comment map and the source text
TableWithSource ==
    /\ Returned
    /\ isinstance(ast, "TomlTable")
    /\ Truthy(arg_source)
    /\ CommentMapUsed.inline # <<>>

\* the simple properties of the root table that are written key = value
KeyValueProperties ==
    SelectSeq(simple_values(ast), LAMBDA kv :
        ~isinstance(kv[2], "TomlEmbed") \/ kv[1] = TEXT_embedContent)

\* C15 as stated: every simple property is matched to the FIRST source line
\* that declares its key, and the comment group keyed to that line is
\* directly above the property's key = value line
C15_FirstDeclaringLine ==
    TableWithSource =>
        \A i \in 1..Len(KeyValueProperties) :
            LET key == KeyValueProperties[i][1]
                declaring == DeclaringLines(Split(Val(arg_source), NL), key)
            IN  (/\ declaring # {}
                 /\ HasKey(CommentMapUsed.inline, First(declaring))) =>
                    DirectlyAbove(result.text,
                        Get(CommentMapUsed.inline, First(declaring)),
                        PropertyText(key, KeyValueProperties[i][2]))

\* C15: every simple property is matched to the LAST source line that
\* declares its key, and the comment group keyed to that line is directly
\* above the property's key = value line
C15_LastDeclaringLine ==
    TableWithSource =>
        \A i \in 1..Len(KeyValueProperties) :
            LET key == KeyValueProperties[i][1]
                declaring == DeclaringLines(Split(Val(arg_source), NL), key)
            IN  (/\ declaring # {}
                 /\ HasKey(CommentMapUsed.inline, Last(declaring))) =>
                    DirectlyAbove(result.text,
                        Get(CommentMapUsed.inline, Last(declaring)),
                        PropertyText(key, KeyValueProperties[i][2]))

\* the key a is declared on lines 1 and 2, both lines have a comment group,
\* and the table has the property a
C15_Witness ==
    /\ TableWithSource
    /\ arg_source = Some(SOURCE_repeated_key)
    /\ Len(CommentMapUsed.inline) = 2
    /\ HasKey(simple_values(ast), KEY_a)
    /\ ~isinstance(Get(simple_values(ast), KEY_a), "TomlEmbed")

\* how many lines of the text are the comment, once stripped
CommentOccurrences(text, comment) ==
    Cardinality({i \in 1..Len(Split(text, NL)) :
                    Strip(Split(text, NL)[i]) = comment})

\* a root array rendered as one multi-line array with the comment map and
\* the source text
CommentedRootArray ==
    /\ Returned
    /\ isinstance(ast, "TomlArray")
    /\ ~needs_array_of_tables_format(ast)
    /\ ~check_heterogeneous(ast)
    /\ ~HasTableElement(ast)
    /\ Truthy(arg_source)
    /\ CommentMapUsed.inline # <<>>

\* the comment groups of the map that some nested array element consumes
ConsumedGroups ==
    SelectSeq(CommentMapUsed.inline, LAMBDA p :
        \E i \in 1..Len(ast.elements) :
            HasKey(ElemComments(ast.elements[i], CommentMapUsed.inline),
                   p[1]))

\* C16: in multi-line array rendering a comment group whose line lies within
\* the recorded lines of a nested array element is rendered only inside that
\* nested array, wherever the nested array stands among the elements: each
\* of its comments is on exactly one line of the returned text
C16_ConsumedGroupRenderedOnce ==
    CommentedRootArray =>
        \A j \in 1..Len(ConsumedGroups) :
            \A k \in 1..Len(ConsumedGroups[j][2]) :
                CommentOccurrences(result.text, ConsumedGroups[j][2][k]) = 1

\* the nested array is the first element: groups are consumed before the
\* parent reaches them
NestedArrayFirst ==
    \A i \in 1..Len(ast.elements) :
        isinstance(ast.elements[i], "TomlArray") => i = 1

\* a consumed group is rendered once when the nested array is the first
\* element
C16_NestedFirstRenderedOnce ==
    NestedArrayFirst => C16_ConsumedGroupRenderedOnce

\* one character of a double-quoted string: backslash, double quote and
\* newline are escaped
EscapedChar(c) ==
    IF c = BS THEN <<BS, BS>>
    ELSE IF c = DQ THEN <<BS, DQ>>
    ELSE IF c = NL THEN <<BS, "n">>
    ELSE <<c>>

\* one character of a single-quoted string: the backslash is doubled
DoubledBackslash(c) == IF c = BS THEN <<BS, BS>> ELSE <<c>>

\* the three rules of string rendering, in their order of precedence
StringByPrecedence(value, allow_multiline) ==
    IF /\ allow_multiline
       /\ (HasChar(value, NL) \/ HasChar(value, TAB))
       /\ \E i \in 1..Len(value) : value[i] \notin Whitespace
    THEN <<DQ, DQ, DQ>> \o value \o <<DQ, DQ, DQ>>
    ELSE IF HasChar(value, BS) /\ HasChar(value, DQ) /\ ~HasChar(value, SQ)
    THEN <<SQ>>
         \o Flatten([i \in 1..Len(value) |-> DoubledBackslash(value[i])])
         \o <<SQ>>
    ELSE <<DQ>>
         \o Flatten([i \in 1..Len(value) |-> EscapedChar(value[i])])
         \o <<DQ>>

\* a root string rendered without comments: allow_multiline is set
RootString == Returned /\ isinstance(ast, "TomlString") /\ arg_comments = None

\* a root table whose one property is a string under the key embedContent:
\* the string is rendered with allow_multiline switched off
EmbedContentString ==
    /\ Returned
    /\ isinstance(ast, "TomlTable")
    /\ Keys(ast.properties) = <<TEXT_embedContent>>
    /\ isinstance(ast.properties[1][2], "TomlString")
    /\ arg_comments = None

\* C17: a string is rendered by the first rule that applies: unchanged
\* between triple double quotes when allow_multiline is set and the value
\* has a newline or tab and is not all whitespace; else single-quoted with
\* backslashes doubled when it has a backslash and a double quote and no
\* single quote; else double-quoted with backslashes doubled, then double
\* quotes escaped, then newlines written as backslash n
C17_StringPrecedence ==
    /\ RootString =>
           result.text =
               TEXT_value_eq \o StringByPrecedence(ast.value, TRUE) \o <<NL>>
    /\ EmbedContentString =>
           result.text =
               TEXT_embedContent_eq
               \o StringByPrecedence(ast.properties[1][2].value, FALSE)
               \o <<NL>>

\* a value with a newline, a backslash and a double quote, rendered with
\* allow_multiline set: the first two rules both apply
C17_Witness ==
    /\ RootString
    /\ ast.value = <<NL, BS, DQ>>
    /\ result.text = TEXT_value_eq \o <<DQ, DQ, DQ, NL, BS, DQ, DQ, DQ, DQ, NL>>

\* the value with every dollar sign that is directly followed by a character
\* of the set dropped and that character turned into a tab
DollarToTab(value, followers) ==
    Flatten([i \in 1..Len(value) |->
        IF /\ value[i] = "$"
           /\ i < Len(value)
           /\ value[i + 1] \in followers
        THEN <<>>
        ELSE IF i > 1 /\ value[i - 1] = "$" /\ value[i] \in followers
        THEN <<TAB>>
        ELSE <<value[i]>>])

\* the string value the parser supplied for a root string
SourceValue == Val(analysis.kson_value).value

ElementKinds ==
    {IF isinstance(ast.elements[i], "TomlArray") THEN "array"
     ELSE IF isinstance(ast.elements[i], "TomlTable") THEN "table"
     ELSE PrimitiveKind(ast.elements[i]) : i \in 1..Len(ast.elements)}

\* the root of the built tree is an array
RootArray == pc \in {"built", "done"} /\ isinstance(ast, "TomlArray")

\* an array beside a number, boolean, null or table, or two distinct
\* primitive kinds
MixedForRoot ==
    \/ /\ "array" \in ElementKinds
       /\ ElementKinds \cap {"number", "boolean", "null", "table"} # {}
    \/ Cardinality(ElementKinds
                   \cap {"string", "number", "boolean", "null"}) >= 2

ArrayOfTablesRendering ==
    /\ Returned
    /\ RootArray
    /\ arg_comments = None
    /\ needs_array_of_tables_format(ast) \/ check_heterogeneous(ast)

\* the text has a [[value]] block that is key = <the element as rendered>
HasBlock(text, key, elem) ==
    Contains(text,
        TEXT_aot_value \o <<NL>> \o key \o <<SP, "=", SP>>
        \o to_toml(elem, 0, <<>>, None) \o <<NL>>)

\* the elements of the root array that are written key = value: neither a
\* table nor an array holding tables
KeyValueElements ==
    SelectSeq(ast.elements, LAMBDA e :
        /\ ~isinstance(e, "TomlTable")
        /\ ~(isinstance(e, "TomlArray") /\ HasTableElement(e)
             /\ ~needs_array_of_tables_format(ast)))

LineOccurrences(text, line) ==
    Cardinality({i \in 1..Len(Split(text, NL)) : Split(text, NL)[i] = line})

\* the properties of a table element as a block of the root array writes them
TableBody(elem) == TomlTable_to_toml(elem, 0, <<>>, <<>>, None)

\* the table elements of the root array
TableElements ==
    SelectSeq(ast.elements, LAMBDA e : isinstance(e, "TomlTable"))

\* C21: a root array rendered as an array of tables has exactly one
\* [[value]] header per element, and the properties of every table element
\* stand directly under a [[value]] header, never behind item = or
\* list_item =
C21_TablesDirectlyUnderHeader ==
    ArrayOfTablesRendering =>
        /\ LineOccurrences(result.text, TEXT_aot_value) = Len(ast.elements)
        /\ \A i \in 1..Len(TableElements) :
               /\ Contains(result.text,
                      TEXT_aot_value \o <<NL>> \o TableBody(TableElements[i]))
               /\ ~Contains(result.text,
                      TEXT_aot_value \o <<NL>> \o TEXT_item_eq
                      \o TableBody(TableElements[i]))
               /\ ~Contains(result.text,
                      TEXT_aot_value \o <<NL>> \o TEXT_list_item
                      \o <<SP, "=", SP>> \o TableBody(TableElements[i]))

\* a root array written as value = <the array>, not as [[value]] blocks
PlainRootArray ==
    /\ Returned
    /\ RootArray
    /\ ~needs_array_of_tables_format(ast)
    /\ ~check_heterogeneous(ast)

\* an element of a one-line array: a table in inline syntax
InlineElement(elem) ==
    IF isinstance(elem, "TomlTable") THEN TomlTable_to_inline(elem)
    ELSE to_toml(elem, 0, <<>>, None)

\* all elements on one line
OneLineArray(elements) ==
    <<"[">>
    \o Join([i \in 1..Len(elements) |-> InlineElement(elements[i])],
            <<",", SP>>)
    \o <<"]">>

\* one element per line inside the brackets
OnePerLineArray(elements) ==
    Join(<<<<"[">>>>
         \o [i \in 1..Len(elements) |->
                Indent(1) \o to_toml(elements[i], 1, <<>>, None)
                \o (IF i < Len(elements) THEN <<",">> ELSE <<>>)]
         \o <<<<"]">>>>,
         <<NL>>)

\* the layout of a plain array by the precedence of the rules
ArrayLayout(node, has_comments) ==
    IF node.elements = <<>> THEN <<"[", "]">>
    ELSE IF HasTableElement(node) THEN OneLineArray(node.elements)
    ELSE IF Len(node.elements) >= 4 \/ HasArrayElement(node) \/ has_comments
    THEN OnePerLineArray(node.elements)
    ELSE OneLineArray(node.elements)

\* comments are attached to the root array
HasAttachedComments ==
    CommentMapUsed.leading # <<>> \/ CommentMapUsed.inline # <<>>

PlainRootTable ==
    Returned /\ isinstance(ast, "TomlTable") /\ arg_comments = None

\* the lines of the returned text, without the empty last one
ResultLines == Split(RStrip(result.text), NL)

\* the line is a [path] or [[path]] header
IsHeader(line) == StartsWith(line, <<"[">>)

\* the header at line j has exactly one blank line above it
OneBlankAbove(lines, j) ==
    j > 1 => /\ lines[j - 1] = <<>>
             /\ j > 2 => lines[j - 2] # <<>>

\* the line at which the property's header stands, Len + 1 when absent
HeaderPos(lines, open, key, close) ==
    FirstStartingWith(lines, open \o key \o close)

\* C23: a table is rendered as its scalars and table-free arrays, then its
\* arrays of tables as [[path]] blocks, then its table-valued properties as
\* [path] blocks, declaration order kept inside each group, and every header
\* after the first line has exactly one blank line above it
C23_GroupsAndBlankLines ==
    PlainRootTable =>
        /\ \A i \in 1..Len(simple_values(ast)) :
               FirstStartingWith(ResultLines,
                   BlockKeyStr(simple_values(ast)[i][1]) \o <<SP, "=", SP>>)
                   < FirstStartingWith(ResultLines, <<"[">>)
        /\ \A i \in 1..Len(nested_arrays(ast)) :
               \A j \in 1..Len(nested_tables(ast)) :
                   HeaderPos(ResultLines, <<"[", "[">>,
                             nested_arrays(ast)[i][1], <<"]", "]">>)
                       < HeaderPos(ResultLines, <<"[">>,
                                   nested_tables(ast)[j][1], <<"]">>)
        /\ \A i, j \in 1..Len(nested_tables(ast)) :
               i < j => HeaderPos(ResultLines, <<"[">>,
                                  nested_tables(ast)[i][1], <<"]">>)
                            < HeaderPos(ResultLines, <<"[">>,
                                        nested_tables(ast)[j][1], <<"]">>)
        /\ \A j \in 1..Len(ResultLines) :
               IsHeader(ResultLines[j]) => OneBlankAbove(ResultLines, j)

\* the root table has no Embed-valued property, no empty table and no table
\* that starts with a table
NoEmbedNoEmptyNoNested ==
    \A i \in 1..Len(ast.properties) :
        /\ ~isinstance(ast.properties[i][2], "TomlEmbed")
        /\ isinstance(ast.properties[i][2], "TomlTable") =>
               simple_values(ast.properties[i][2]) # <<>>

\* the groups and the blank lines are as stated for the tables whose
\* table-valued properties all start with a scalar
C23_WhenTablesStartWithScalar ==
    (PlainRootTable /\ NoEmbedNoEmptyNoNested) => C23_GroupsAndBlankLines

\* the header line that governs line j: the nearest header above it, the
\* empty text when there is none
GoverningHeader(lines, j) ==
    LET above == {i \in 1..(j - 1) : IsHeader(lines[i])}
    IN  IF above = {} THEN <<>>
        ELSE lines[CHOOSE i \in above : \A k \in above : k <= i]

\* some key = line of the property stands under the header
LineUnder(lines, key, header) ==
    \E j \in 1..Len(lines) :
        /\ StartsWith(lines[j], BlockKeyStr(key) \o <<SP, "=", SP>>)
        /\ GoverningHeader(lines, j) = header

\* the header is a line of the text
HeaderPresent(lines, header) == \E j \in 1..Len(lines) : lines[j] = header

\* every scalar or plain-array property of the table at the path stands under
\* the header, every table-valued property under [path.key], and every table
\* element of an array of tables under [[path.key]], at any depth
RECURSIVE OwnedUnder(_, _, _, _)
OwnedUnder(lines, table, path, header) ==
    /\ \A i \in 1..Len(simple_values(table)) :
           ~isinstance(simple_values(table)[i][2], "TomlEmbed") =>
               LineUnder(lines, simple_values(table)[i][1], header)
    /\ \A i \in 1..Len(nested_tables(table)) :
           LET key == nested_tables(table)[i][1]
               own == <<"[">> \o FullPath(path, key) \o <<"]">>
           IN  /\ HeaderPresent(lines, own)
               /\ OwnedUnder(lines, nested_tables(table)[i][2], FullPath(path, key), own)
    /\ \A i \in 1..Len(nested_arrays(table)) :
           LET key == nested_arrays(table)[i][1]
               own == <<"[", "[">> \o FullPath(path, key) \o <<"]", "]">>
               elements == nested_arrays(table)[i][2].elements
           IN  \A e \in 1..Len(elements) :
                   isinstance(elements[e], "TomlTable") =>
                       /\ HeaderPresent(lines, own)
                       /\ OwnedUnder(lines, elements[e], FullPath(path, key), own)

\* C24: every table-valued property at any depth stands under a [path]
\* header whose path is the dot-joined keys from the root down to its own
\* key, and every property line stands under the header of the table that
\* owns it, also for the tables nested in an element of an array of tables
C24_PropertiesUnderOwnHeader ==
    PlainRootTable => OwnedUnder(ResultLines, ast, <<>>, <<>>)

\* no array of tables of the root table has an element that holds a table
NoTableInTableElement ==
    \A i \in 1..Len(nested_arrays(ast)) :
        \A e \in 1..Len(nested_arrays(ast)[i][2].elements) :
            LET elem == nested_arrays(ast)[i][2].elements[e]
            IN  isinstance(elem, "TomlTable") =>
                    nested_tables(elem) = <<>> /\ nested_arrays(elem) = <<>>

\* the root table has no Embed-valued property
NoEmbedProperty ==
    \A i \in 1..Len(ast.properties) :
        ~isinstance(ast.properties[i][2], "TomlEmbed")

\* headers and owners are as stated when no table is nested in an element
\* of an array of tables and no property is an Embed
C24_OutsideTableElements ==
    (PlainRootTable /\ NoTableInTableElement /\ NoEmbedProperty) =>
        OwnedUnder(ResultLines, ast, <<>>, <<>>)

\* the stated rule: the key holds a space or a hyphen, or is true, false
\* or null
KeyNeedsQuotes(key) ==
    \/ \E i \in 1..Len(key) : key[i] \in {SP, "-"}
    \/ key \in {<<"t", "r", "u", "e">>, <<"f", "a", "l", "s", "e">>,
                <<"n", "u", "l", "l">>}

\* the key followed by " = ", quoted or bare
KeyEntry(key, quoted) ==
    (IF quoted THEN <<DQ>> \o key \o <<DQ>> ELSE key) \o <<SP, "=", SP>>

\* the keys of the scalar and plain-array properties of the tables of the
\* tree, at any depth
RECURSIVE EntryKeys(_)
EntryKeys(node) ==
    IF isinstance(node, "TomlTable")
    THEN {node.properties[i][1] : i \in {j \in 1..Len(node.properties) :
              /\ ~isinstance(node.properties[j][2], "TomlTable")
              /\ ~isinstance(node.properties[j][2], "TomlEmbed")
              /\ ~IsArrayOfTables(node.properties[j][2])}}
         \cup UNION {EntryKeys(node.properties[i][2]) :
                         i \in 1..Len(node.properties)}
    ELSE IF isinstance(node, "TomlArray")
    THEN UNION {EntryKeys(node.elements[i]) : i \in 1..Len(node.elements)}
    ELSE {}

RootEmbedBuilt ==
    /\ pc \in {"built", "done"}
    /\ isinstance(ast, "TomlEmbed")
    /\ HasTree

\* the content of the root embed as the parser gave it
GivenContent == Val(analysis.kson_value).content

HasMarker(content) ==
    Contains(content, MARK_percent) \/ Contains(content, MARK_dollar)

\* every marker replaced by the doubled delimiter
Resolved(content) ==
    Replace(Replace(content, MARK_percent, <<"%", "%">>),
            MARK_dollar, <<"$", "$">>)

\* a line of the content starts with an embed delimiter
DelimiterLine(content) ==
    \E i \in 1..Len(Split(content, NL)) :
        \/ StartsWith(Split(content, NL)[i], <<"%">>)
        \/ StartsWith(Split(content, NL)[i], <<"$">>)

\* C26: when an Embed node is built, content that holds a marker and
\* neither a colon followed by a newline nor a line starting with an embed
\* delimiter has every marker resolved and is marked as having no unresolved
\* escapes; in every other case the content is kept and the node is marked
\* as holding unresolved escapes
C26_ResolvedOrMarked ==
    RootEmbedBuilt =>
        IF /\ HasMarker(GivenContent)
           /\ ~Contains(GivenContent, <<":", NL>>)
           /\ ~DelimiterLine(GivenContent)
        THEN ast.content = Resolved(GivenContent) /\ ~ast.has_escapes
        ELSE ast.content = GivenContent /\ ast.has_escapes

\* the signs of structure the builder looks for
LooksStructured(content) ==
    \/ \E i \in 1..(Len(content) - 1) :
           content[i] = ":" /\ content[i + 1] \in {NL, CR, SP}
    \/ \E i \in 1..(Len(content) - 1) :
           content[i] = NL /\ content[i + 1] \in {"$", "%"}

\* C26, amended: the markers are resolved, and the node marked as having no
\* unresolved escapes, when the content holds a marker, no colon followed
\* by a newline, a carriage return or a space, and no newline followed by
\* an embed delimiter; in every other case the content is kept and the node
\* is marked as holding unresolved escapes exactly when the content holds a
\* backslash
C26_ResolvedOrMarkedByBackslash ==
    RootEmbedBuilt =>
        IF HasMarker(GivenContent) /\ ~LooksStructured(GivenContent)
        THEN ast.content = Resolved(GivenContent) /\ ~ast.has_escapes
        ELSE /\ ast.content = GivenContent
             /\ ast.has_escapes = (\E i \in 1..Len(GivenContent) :
                                       GivenContent[i] = BS)

\* a marker beside a colon and a space has been left unresolved
C26_Witness ==
    /\ RootEmbedBuilt
    /\ GivenContent = MARK_percent \o <<":", SP>>
    /\ ast.content = GivenContent
    /\ ast.has_escapes

\* a root embed without tag, metadata or comments has been rendered
PlainRootEmbed ==
    /\ Returned
    /\ isinstance(ast, "TomlEmbed")
    /\ ast.tag = None /\ ast.metadata = None
    /\ arg_comments = None

EmbedOpening == TEXT_embedContent_eq \o <<DQ, DQ, DQ, NL>>
EmbedClosing == <<DQ, DQ, DQ, NL>>

\* what stands between the opening and the closing quotes of the text
EmbedBody ==
    SubSeq(result.text, Len(EmbedOpening) + 1,
           Len(result.text) - Len(EmbedClosing))

\* the number of backslashes of the text
Backslashes(text) == Cardinality({i \in 1..Len(text) : text[i] = BS})

\* the content before its backslashes are doubled
EmbedBase ==
    LET shown == IF ast.has_escapes THEN ast.content ELSE dedent(ast.content)
    IN  IF shown # <<>> /\ shown[Len(shown)] = NL THEN shown
        ELSE shown \o <<NL>>

\* C27: an Embed is rendered as three double quotes, a newline, a body and
\* three double quotes; the body is the content, without its common
\* indentation exactly when the node has no unresolved escapes, with a
\* newline added when it does not end with one, and with every backslash
\* doubled, so it ends with a newline and has twice the backslashes of the
\* content
C27_EmbedBody ==
    PlainRootEmbed =>
        /\ StartsWith(result.text, EmbedOpening)
        /\ EndsWith(result.text, EmbedClosing)
        /\ Len(result.text) >= Len(EmbedOpening) + Len(EmbedClosing)
        /\ Replace(EmbedBody, <<BS, BS>>, <<BS>>) = EmbedBase
        /\ EmbedBody[Len(EmbedBody)] = NL
        /\ Backslashes(EmbedBody) = 2 * Backslashes(ast.content)
        /\ ast.has_escapes => StartsWith(Replace(EmbedBody, <<BS, BS>>, <<BS>>), ast.content)

\* an indented two-line content has been rendered without its indentation
C27_Witness ==
    /\ PlainRootEmbed
    /\ ast.content = <<SP, SP, "a", NL, SP, SP, "a">>
    /\ ~ast.has_escapes
    /\ EmbedBody = <<"a", NL, "a", NL>>

RECURSIVE StringFlags(_)
\* the allow_multiline flags of the String nodes of the tree, in order
StringFlags(node) ==
    IF isinstance(node, "TomlString") THEN <<node.allow_multiline>>
    ELSE Flatten([i \in 1..Len(node.elements) |-> StringFlags(node.elements[i])])
         \o Flatten([i \in 1..Len(node.properties) |->
                        StringFlags(node.properties[i][2])])

CommentOf(line) ==
    IF IsCommentOnly(line) THEN Strip(line)
    ELSE SameLineComment(Split1(Strip(line), "#")[2])

\* the numbers of the source lines that hold a comment
CommentedLines(lines) ==
    {i \in 1..Len(lines) :
        IsCommentOnly(lines[i]) \/ HasSameLineComment(Strip(lines[i]))}

\* everything the extractor has stored: leading, the inline groups, trailing
StoredComments(e) ==
    e.leading_comments
    \o Flatten([i \in 1..Len(e.inline_comments) |-> e.inline_comments[i][2]])
    \o e.trailing_comments

\* C29: the extractor conserves comments: every comment of the source,
\* comment-only or on the line of some content, is stored exactly once in
\* leading, an inline group or trailing, and no group is overwritten
C29_CommentsConserved ==
    Extracted =>
        /\ Len(StoredComments(extractor)) = Cardinality(CommentedLines(ExtractorLines))
        /\ \A i \in CommentedLines(ExtractorLines) :
               \E j \in 1..Len(StoredComments(extractor)) :
                   StoredComments(extractor)[j] = CommentOf(ExtractorLines[i])

\* no comment-only line stands above a content line that carries a comment
NoCommentBeforeSameLineComment ==
    \A i \in 1..Len(ExtractorLines) :
        IsCommentOnly(ExtractorLines[i])
            => \A j \in (i + 1)..Len(ExtractorLines) :
                   ~HasSameLineComment(Strip(ExtractorLines[j]))

\* the comments are conserved in the sources where no group is stored twice
\* under one line number
C29_ConservedWithoutClash ==
    NoCommentBeforeSameLineComment => C29_CommentsConserved

\* the key as the stated rule writes it
QuotedKey(key) ==
    IF KeyNeedsQuotes(key) THEN <<DQ>> \o key \o <<DQ>> ELSE key

\* the keys of the root table that are written into a header
HeaderKeys ==
    {nested_tables(ast)[i][1] : i \in 1..Len(nested_tables(ast))}
    \cup {nested_arrays(ast)[i][1] : i \in 1..Len(nested_arrays(ast))}
    \cup {simple_values(ast)[i][1] : i \in {j \in 1..Len(simple_values(ast)) :
              /\ isinstance(simple_values(ast)[j][2], "TomlEmbed")
              /\ simple_values(ast)[j][1] # TEXT_embedContent}}

\* some header of the text is the key written this way
InHeader(lines, written) ==
    \E j \in 1..Len(lines) :
        \/ lines[j] = <<"[">> \o written \o <<"]">>
        \/ lines[j] = <<"[", "[">> \o written \o <<"]", "]">>

\* C30: the key-quoting rule covers the [path] and [[path]] headers: a key
\* written into a header is in double quotes when it holds a space or a
\* hyphen or is true, false or null, as in the key = value lines, and is
\* never written bare there
C30_HeaderKeysQuoted ==
    PlainRootTable =>
        \A key \in HeaderKeys :
            /\ InHeader(ResultLines, QuotedKey(key))
            /\ KeyNeedsQuotes(key) => ~InHeader(ResultLines, key)

\* the headers are as stated for the keys that the rule leaves bare
C30_BareHeaderKeys ==
    PlainRootTable =>
        \A key \in HeaderKeys :
            ~KeyNeedsQuotes(key) => InHeader(ResultLines, QuotedKey(key))
============================================================================
